---------------------------- MODULE Spec2Model ----------------------------
(***************************************************************************)
(* A model of the Turing machine of src/MT.h (class TuringMachine) and of  *)
(* the components it owns: StateManager, TransitionManager, HeadManager,   *)
(* StatisticsManager and the TuringStrip tape, which layers a map of       *)
(* modifications over a LazySeq fed by a TapeGenerator.                    *)
(***************************************************************************)
EXTENDS Integers, Sequences, FiniteSets, TLC

(***************************************************************************)
(* Bounds of the exploration.                                              *)
(***************************************************************************)
\* largest number of keys the rule table is given
MaxRules == 1
\* longest initial data handed to the constructor or to Reset
MaxData == 1
\* largest step limit handed to Run or SetMaxSteps; Run is explored only
\* while the limit in force is at most this
MaxLimit == 2
\* number of Step / Run / Reset / SetMaxSteps calls a client makes
MaxCalls == 2
\* tape positions a client of the tape reads and writes: -MaxPos..MaxPos
MaxPos == 1
\* farthest position, on either side of 0, the head manager is driven to
MaxHead == 2
\* longest binary word the inverter is run on
MaxWord == 3
\* largest index a client of a LazySeq asks for
MaxIndex == 2
MaxAdds == 3

(***************************************************************************)
(* Program constants.                                                      *)
(***************************************************************************)
\* StatisticsManager's default max_steps
DefaultMaxSteps == 100000
\* LazySeq::INF, numeric_limits<size_t>::max(): the largest value the
\* model checker represents stands for it
INF == 2147483647

States == {"q0", "q1"}
Symbols == {"_", "1"}
Directions == {"LEFT", "STAY", "RIGHT"}
Results == {"ACCEPTED", "REJECTED", "TIMEOUT", "ERROR"}

\* the symbols an input is written in: every symbol but the blank
InputSymbols == {"1"}

Max(a, b) == IF a >= b THEN a ELSE b
Min(a, b) == IF a <= b THEN a ELSE b

RECURSIVE SeqsUpTo(_, _)
SeqsUpTo(S, n) ==
    IF n = 0 THEN {<<>>}
    ELSE SeqsUpTo(S, n - 1) \cup
         {Append(s, x) : s \in {t \in SeqsUpTo(S, n - 1) : Len(t) = n - 1}, x \in S}

\* the data a machine is constructed or reset with
Inputs == SeqsUpTo(InputSymbols, MaxData)
\* the data a tape is constructed or reset with
TapeData == SeqsUpTo(Symbols, MaxData)
Limits == 0..MaxLimit
TapePositions == (0 - MaxPos)..MaxPos
\* positions the head of an explored machine can reach, and one beyond
Reach == MaxCalls * MaxLimit + MaxCalls + 1
Window == (0 - Reach)..Reach

VARIABLES
    current_state_,     \* StateManager
    initial_state_,
    final_states_,
    rules_map_,         \* TransitionManager
    position_,          \* HeadManager
    initial_position_,
    min_position_,
    max_position_,
    step_count_,        \* StatisticsManager
    max_steps_,
    blank_symbol_,      \* TuringStrip
    modifications_,
    strip_,
    pc,                 \* "idle", or "run" inside Run's loop
    result,             \* what the last Run returned
    step_ret,           \* what the last Step returned
    ev,                 \* the last call and what held when it was made
    calls,              \* execution calls made so far
    applied,            \* transitions applied since construction or Reset
    run_applied,        \* transitions applied by the current or last Run
    copy_,              \* a copy made of the machine, if any
    lazy_,              \* a LazySeq used on its own
    lazy_calls,         \* the last two Get calls made on lazy_
    gen_,               \* a generator used on its own
    gen_log,            \* the calls made on gen_: how many, and the last one
    added_,             \* the rules given to AddRule, in the order of the calls
    written_,           \* the positions a client of the overlay has had written
    held_               \* the positions the head of a HeadManager has held

stateVars == <<current_state_, initial_state_, final_states_>>
headVars == <<position_, initial_position_, min_position_, max_position_>>
statVars == <<step_count_, max_steps_>>
tapeVars == <<blank_symbol_, modifications_, strip_>>
ctlVars == <<pc, result, step_ret, ev, calls, applied, run_applied>>
auxVars == <<copy_, lazy_, lazy_calls, gen_, gen_log, added_, written_, held_>>
vars == <<stateVars, rules_map_, headVars, statVars, tapeVars, ctlVars, auxVars>>

(***************************************************************************)
(* Gen.h: TapeGenerator, a SequenceGenerator followed by a                 *)
(* ConstantGenerator.                                                      *)
(***************************************************************************)
\* TapeGenerator as it would be if it dropped the data it is given
TapeGeneratorNoData(initial_data, blank_symbol) ==
    [data_ |-> <<>>, current_index_ |-> 0,
     default_value_ |-> blank_symbol, constant_value_ |-> blank_symbol,
     using_sequence_ |-> TRUE]

TapeGenerator(initial_data, blank_symbol) ==
    [data_ |-> initial_data, current_index_ |-> 0,
     default_value_ |-> blank_symbol, constant_value_ |-> blank_symbol,
     using_sequence_ |-> TRUE]

IsInDataRange(gen) == gen.current_index_ < Len(gen.data_)

\* GetNext as it would be if the index into the data never advanced
GetNextStuck(gen) ==
    IF gen.using_sequence_ /\ IsInDataRange(gen)
    THEN [value |-> gen.data_[gen.current_index_ + 1], gen |-> gen]
    ELSE [value |-> gen.constant_value_,
          gen |-> [gen EXCEPT !.using_sequence_ = FALSE]]

\* the value GetNext returns and the generator it leaves
GetNext(gen) ==
    IF gen.using_sequence_ /\ IsInDataRange(gen)
    THEN [value |-> gen.data_[gen.current_index_ + 1],
          gen |-> [gen EXCEPT !.current_index_ = @ + 1]]
    ELSE [value |-> gen.constant_value_,
          gen |-> [gen EXCEPT !.using_sequence_ = FALSE]]

(***************************************************************************)
(* Mem.h and LazySeq.h.  An optional is a set with at most one element.    *)
(***************************************************************************)
MaterializedCount(seq) == Len(seq.mem_)

MemGet(seq, i) == IF i < Len(seq.mem_) THEN {seq.mem_[i + 1]} ELSE {}

LazySeq(gen, max_len) == [mem_ |-> <<>>, gen_ |-> gen, max_len_ |-> max_len]

\* the loop of LazySeq::Get: the sequence after growing towards index i
RECURSIVE Grow(_, _)
Grow(seq, i) ==
    IF MaterializedCount(seq) <= i /\ MaterializedCount(seq) < seq.max_len_
    THEN LET n == GetNext(seq.gen_)
         IN Grow([seq EXCEPT !.mem_ = Append(@, n.value), !.gen_ = n.gen], i)
    ELSE seq

\* Get as it would be if a miss returned the first lookup's result again
GetStale(seq, i) ==
    IF MemGet(seq, i) # {}
    THEN [hit |-> MemGet(seq, i), seq |-> seq]
    ELSE [hit |-> MemGet(seq, i), seq |-> Grow(seq, i)]

\* LazySeq::Get: the optional it returns and the sequence it leaves
Get(seq, i) ==
    IF MemGet(seq, i) # {}
    THEN [hit |-> MemGet(seq, i), seq |-> seq]
    ELSE LET grown == Grow(seq, i)
         IN [hit |-> MemGet(grown, i), seq |-> grown]

(***************************************************************************)
(* TuringStrip.h.                                                          *)
(***************************************************************************)
\* GetSymbolAt as it would be if a materialized base cell were consulted
\* before the modifications
GetSymbolAtBaseFirst(strip, mods, blank, position) ==
    IF position >= 0 /\ MemGet(strip, position) # {}
    THEN [symbol |-> CHOOSE s \in MemGet(strip, position) : TRUE, strip |-> strip]
    ELSE IF position \in DOMAIN mods
    THEN [symbol |-> mods[position], strip |-> strip]
    ELSE IF position < 0
    THEN [symbol |-> blank, strip |-> strip]
    ELSE LET got == Get(strip, position)
         IN [symbol |-> IF got.hit # {} THEN CHOOSE s \in got.hit : TRUE ELSE blank,
             strip |-> got.seq]

\* GetSymbolAt as it would be if it fetched the cell from the base sequence
\* before looking at the modifications
GetSymbolAtThroughBase(strip, mods, blank, position) ==
    IF position < 0
    THEN [symbol |-> IF position \in DOMAIN mods THEN mods[position] ELSE blank,
          strip |-> strip]
    ELSE LET got == Get(strip, position)
         IN [symbol |-> IF position \in DOMAIN mods THEN mods[position]
                        ELSE IF got.hit # {} THEN CHOOSE s \in got.hit : TRUE
                        ELSE blank,
             strip |-> got.seq]

\* TuringStrip::GetSymbolAt: the symbol returned and the base it leaves
GetSymbolAt(strip, mods, blank, position) ==
    IF position \in DOMAIN mods
    THEN [symbol |-> mods[position], strip |-> strip]
    ELSE IF position < 0
    THEN [symbol |-> blank, strip |-> strip]
    ELSE LET got == Get(strip, position)
         IN [symbol |-> IF got.hit # {} THEN CHOOSE s \in got.hit : TRUE ELSE blank,
             strip |-> got.seq]

\* SetSymbolAt as it would be if a write dropped the earlier modifications
SetSymbolAtAlone(mods, position, symbol) == [p \in {position} |-> symbol]

\* SetSymbolAt as it would be if a blank written to a cell that was never
\* written were not stored
SetSymbolAtSkipsBlank(mods, position, symbol) ==
    IF symbol = "_" /\ position \notin DOMAIN mods THEN mods
    ELSE [p \in (DOMAIN mods) \cup {position} |->
            IF p = position THEN symbol ELSE mods[p]]

\* TuringStrip::SetSymbolAt: the modifications after the write
SetSymbolAt(mods, position, symbol) ==
    [p \in (DOMAIN mods) \cup {position} |->
        IF p = position THEN symbol ELSE mods[p]]

\* TuringStrip::ClearModifications and TuringStrip::ApplyModifications: the
\* modifications they leave; ApplyModifications only calls ClearModifications
ClearModifications(mods) == <<>>
ApplyModifications(mods) == ClearModifications(mods)

\* the loop of TuringStrip::GetSegment: one read per position from start_pos
\* on, each on the base sequence the read before it left
RECURSIVE SegmentFrom(_, _, _, _, _, _)
SegmentFrom(strip, mods, blank, start_pos, length, segment) ==
    IF Len(segment) >= length
    THEN [segment |-> segment, strip |-> strip]
    ELSE LET rd == GetSymbolAt(strip, mods, blank, start_pos + Len(segment))
         IN SegmentFrom(rd.strip, mods, blank, start_pos, length,
                        Append(segment, rd.symbol))

\* GetSegment as it would be if a negative start were moved to position 0
GetSegmentFromZero(strip, mods, blank, start_pos, length) ==
    SegmentFrom(strip, mods, blank, Max(start_pos, 0), length, <<>>)

\* TuringStrip::GetSegment: the segment, and the base sequence its reads leave
GetSegment(strip, mods, blank, start_pos, length) ==
    SegmentFrom(strip, mods, blank, start_pos, length, <<>>)

\* what a read of position p returns in the current state
ReadAt(p) == GetSymbolAt(strip_, modifications_, blank_symbol_, p).symbol

(***************************************************************************)
(* TransitionManager.h, StateManager.h, StatisticsManager.h, HeadManager.h *)
(***************************************************************************)
Rules ==
    [from_state : States, read_symbol : Symbols, to_state : States,
     write_symbol : Symbols, direction : Directions]

\* AddRule as it would be with an insert, which keeps the rule a key has
AddRuleKeepsFirst(rules, rule) ==
    LET key == <<rule.from_state, rule.read_symbol>>
    IN IF key \in DOMAIN rules THEN rules
       ELSE [k \in (DOMAIN rules) \cup {key} |-> IF k = key THEN rule ELSE rules[k]]

\* TransitionManager::AddRule: the table after rules_map_[key] = rule
AddRule(rules, rule) ==
    LET key == <<rule.from_state, rule.read_symbol>>
    IN [k \in (DOMAIN rules) \cup {key} |-> IF k = key THEN rule ELSE rules[k]]

\* FindRule as it would be with the pair of the key built in the wrong order
FindRuleSwappedKey(rules, state, symbol) ==
    IF <<symbol, state>> \in DOMAIN rules THEN {rules[<<symbol, state>>]} ELSE {}

\* FindRule as it would be if a miss fell back on any rule of the state
FindRuleIgnoresSymbol(rules, state, symbol) ==
    IF <<state, symbol>> \in DOMAIN rules
    THEN {rules[<<state, symbol>>]}
    ELSE IF \E k \in DOMAIN rules : k[1] = state
    THEN {rules[CHOOSE k \in DOMAIN rules : k[1] = state]}
    ELSE {}

FindRule(rules, state, symbol) ==
    IF <<state, symbol>> \in DOMAIN rules THEN {rules[<<state, symbol>>]} ELSE {}

HasRule(rules, state, symbol) == <<state, symbol>> \in DOMAIN rules

GetRulesCount(rules) == Cardinality(DOMAIN rules)

IsInFinalState == current_state_ \in final_states_

\* IsStepLimitExceeded as it would be with a strict comparison
IsStepLimitExceededStrict == step_count_ > max_steps_

IsStepLimitExceeded == step_count_ >= max_steps_

\* IncrementStepCount as it would be if the increment were lost
IncrementStepCountLost(count) == count

\* IncrementStepCount as it would be if a step counted twice
IncrementStepCountTwice(count) == count + 2

IncrementStepCount(count) == count + 1

\* Move as it would be if the head stopped at position 0 on its way left
MoveClamped(pos, lo, hi, direction) ==
    IF direction = "LEFT"
    THEN IF pos <= 0
         THEN [position |-> pos, min |-> lo, max |-> hi]
         ELSE [position |-> pos - 1, min |-> IF pos - 1 < lo THEN pos - 1 ELSE lo,
               max |-> hi]
    ELSE IF direction = "RIGHT"
    THEN [position |-> pos + 1, min |-> lo, max |-> IF pos + 1 > hi THEN pos + 1 ELSE hi]
    ELSE [position |-> pos, min |-> lo, max |-> hi]

\* HeadManager::Move: the position and the range after the move
Move(pos, lo, hi, direction) ==
    IF direction = "LEFT"
    THEN [position |-> pos - 1, min |-> IF pos - 1 < lo THEN pos - 1 ELSE lo, max |-> hi]
    ELSE IF direction = "RIGHT"
    THEN [position |-> pos + 1, min |-> lo, max |-> IF pos + 1 > hi THEN pos + 1 ELSE hi]
    ELSE [position |-> pos, min |-> lo, max |-> hi]

\* the symbol under the head and the rule for the current configuration
CurrentSymbol == ReadAt(position_)
CurrentRule == FindRule(rules_map_, current_state_, CurrentSymbol)

(***************************************************************************)
(* The state after construction: TuringMachine(initial_state,              *)
(* blank_symbol, initial_data, initial_head_position).                     *)
(***************************************************************************)
\* the last call: its name, whether it invoked Step, what held before it,
\* for a call on the tape the position and symbol it was given, for a call
\* that loads data the data it was given, for GetSegment the length it was
\* given (data then is the segment returned), and for Run the max_steps it
\* was given
NoEvent == [op |-> "new", stepped |-> FALSE, at_limit |-> FALSE,
            was_final |-> FALSE, had_rule |-> FALSE, pos |-> 0, sym |-> "_",
            data |-> <<>>, len |-> 0]

Event(op, stepped) ==
    [op |-> op, stepped |-> stepped, at_limit |-> IsStepLimitExceeded,
     was_final |-> IsInFinalState, had_rule |-> CurrentRule # {},
     pos |-> 0, sym |-> "_", data |-> <<>>, len |-> 0]

TapeEvent(op, position, symbol) ==
    [op |-> op, stepped |-> FALSE, at_limit |-> FALSE, was_final |-> FALSE,
     had_rule |-> FALSE, pos |-> position, sym |-> symbol, data |-> <<>>,
     len |-> 0]

\* the machine with the rule table and final states it has once configured
Configured(initial_data, initial_head_position, table, finals) ==
    /\ initial_state_ = "q0"
    /\ current_state_ = "q0"
    /\ final_states_ = finals
    /\ rules_map_ = table
    /\ initial_position_ = initial_head_position
    /\ position_ = initial_head_position
    /\ min_position_ = initial_head_position
    /\ max_position_ = initial_head_position
    /\ step_count_ = 0
    /\ max_steps_ = DefaultMaxSteps
    /\ blank_symbol_ = "_"
    /\ modifications_ = <<>>
    /\ strip_ = LazySeq(TapeGenerator(initial_data, "_"), INF)
    /\ pc = "idle"
    /\ result = "NONE"
    /\ step_ret = FALSE
    /\ ev = NoEvent
    /\ calls = 0
    /\ applied = 0
    /\ run_applied = 0

\* a machine is constructed with no rule and no final state
Machine(initial_data, initial_head_position) ==
    Configured(initial_data, initial_head_position, <<>>, {})

\* no copy has been made, no LazySeq and no generator is used on its own,
\* and no AddRule call, written position or head position is on record
NoCopy == [made |-> FALSE]
NoLazy == [mem_ |-> <<>>, max_len_ |-> 0]
NoGen == [kind |-> "none"]
NoCall == [op |-> "new", ok |-> TRUE, value |-> "_", invoked |-> 0]
NoLog == [calls |-> 0, invoked |-> 0, failed |-> FALSE, last |-> NoCall]
NoAux ==
    /\ copy_ = NoCopy
    /\ lazy_ = NoLazy /\ lazy_calls = <<>>
    /\ gen_ = NoGen /\ gen_log = NoLog
    /\ added_ = <<>>
    /\ written_ = {} /\ held_ = {}

\* the default initial_head_position is 0
Construct(initial_data) == Machine(initial_data, 0) /\ NoAux

Init == \E initial_data \in Inputs : Construct(initial_data)

(***************************************************************************)
(* Configuration: AddTransition and AddFinalState.                         *)
(***************************************************************************)
AddTransition ==
    /\ pc = "idle"
    /\ calls = 0
    /\ \E rule \in Rules :
        /\ \/ <<rule.from_state, rule.read_symbol>> \in DOMAIN rules_map_
           \/ Cardinality(DOMAIN rules_map_) < MaxRules
        /\ rules_map_' = AddRule(rules_map_, rule)
    /\ UNCHANGED <<stateVars, headVars, statVars, tapeVars, ctlVars, auxVars>>

AddFinalState ==
    /\ pc = "idle"
    /\ calls = 0
    /\ \E state \in States : final_states_' = final_states_ \cup {state}
    /\ UNCHANGED <<current_state_, initial_state_, rules_map_, headVars, statVars,
                   tapeVars, ctlVars, auxVars>>

(***************************************************************************)
(* TuringMachine::Step.  StepBody is the method, returning ok; Step is a   *)
(* client's call of it.                                                    *)
(***************************************************************************)
StepBody(ok) ==
    IF IsStepLimitExceeded
    THEN /\ ok = FALSE
         /\ UNCHANGED <<stateVars, rules_map_, headVars, statVars, tapeVars>>
    ELSE LET rd == GetSymbolAt(strip_, modifications_, blank_symbol_, position_)
             rule == FindRule(rules_map_, current_state_, rd.symbol)
         IN IF rule = {}
            THEN /\ ok = FALSE
                 /\ strip_' = rd.strip
                 /\ UNCHANGED <<stateVars, rules_map_, headVars, statVars,
                                blank_symbol_, modifications_>>
            ELSE LET r == CHOOSE x \in rule : TRUE
                     mv == Move(position_, min_position_, max_position_, r.direction)
                 IN /\ ok = TRUE
                    /\ current_state_' = r.to_state
                    /\ strip_' = rd.strip
                    /\ modifications_' = SetSymbolAt(modifications_, position_, r.write_symbol)
                    /\ position_' = mv.position
                    /\ min_position_' = mv.min
                    /\ max_position_' = mv.max
                    /\ step_count_' = IncrementStepCount(step_count_)
                    /\ UNCHANGED <<initial_state_, final_states_, rules_map_,
                                   initial_position_, max_steps_, blank_symbol_>>

Step ==
    /\ pc = "idle"
    /\ calls < MaxCalls
    /\ \E ok \in BOOLEAN :
        /\ StepBody(ok)
        /\ step_ret' = ok
        /\ applied' = IF ok THEN applied + 1 ELSE applied
    /\ ev' = Event("Step", TRUE)
    /\ calls' = calls + 1
    /\ UNCHANGED <<pc, result, run_applied, auxVars>>

(***************************************************************************)
(* TuringMachine::Run(max_steps).  Run is the call up to the loop; RunLoop *)
(* is one pass of the loop, which returns or applies one Step.             *)
(***************************************************************************)
\* RunVerdict as it would be with the step limit checked first
RunVerdictLimitFirst(final, exceeded) ==
    IF exceeded THEN "TIMEOUT" ELSE IF final THEN "ACCEPTED" ELSE "STEP"

\* RunVerdict as it would be if a reached step limit were reported as an error
RunVerdictLimitIsError(final, exceeded) ==
    IF final THEN "ACCEPTED" ELSE IF exceeded THEN "ERROR" ELSE "STEP"

\* RunVerdict as it would be without the step-limit check
RunVerdictNoTimeout(final, exceeded) ==
    IF final THEN "ACCEPTED" ELSE "STEP"

\* RunVerdict as it would be without the final-state check
RunVerdictNoAccept(final, exceeded) ==
    IF exceeded THEN "TIMEOUT" ELSE "STEP"

\* what a pass of Run's loop decides before it steps
RunVerdict(final, exceeded) ==
    IF final THEN "ACCEPTED" ELSE IF exceeded THEN "TIMEOUT" ELSE "STEP"

\* Run(max_steps) up to its loop
\* Run as it would be if Run(0) put the default limit back
RunCallZeroIsDefault(max_steps) ==
    /\ pc = "idle"
    /\ calls < MaxCalls
    /\ max_steps_' = IF max_steps > 0 THEN max_steps ELSE DefaultMaxSteps
    /\ step_count_' = 0
    /\ pc' = "run"
    /\ result' = "NONE"
    /\ ev' = [Event("Run", FALSE) EXCEPT !.len = max_steps]
    /\ calls' = calls + 1
    /\ run_applied' = 0
    /\ UNCHANGED <<stateVars, rules_map_, headVars, tapeVars, step_ret, applied, auxVars>>

RunCall(max_steps) ==
    /\ pc = "idle"
    /\ calls < MaxCalls
    /\ max_steps_' = IF max_steps > 0 THEN max_steps ELSE max_steps_
    /\ step_count_' = 0
    /\ pc' = "run"
    /\ result' = "NONE"
    /\ ev' = [Event("Run", FALSE) EXCEPT !.len = max_steps]
    /\ calls' = calls + 1
    /\ run_applied' = 0
    /\ UNCHANGED <<stateVars, rules_map_, headVars, tapeVars, step_ret, applied, auxVars>>

\* a Run with a small limit, or with the limit in force if that is small
Run ==
    \E max_steps \in Limits :
        /\ max_steps > 0 \/ max_steps_ <= MaxLimit
        /\ RunCall(max_steps)

RunLoop ==
    /\ pc = "run"
    /\ LET verdict == RunVerdict(IsInFinalState, IsStepLimitExceeded)
       IN /\ ev' = Event("RunLoop", verdict = "STEP")
          /\ IF verdict # "STEP"
             THEN /\ result' = verdict
                  /\ pc' = "idle"
                  /\ UNCHANGED <<stateVars, rules_map_, headVars, statVars, tapeVars,
                                 step_ret, applied, run_applied>>
             ELSE \E ok \in BOOLEAN :
                  /\ StepBody(ok)
                  /\ step_ret' = ok
                  /\ applied' = IF ok THEN applied + 1 ELSE applied
                  /\ run_applied' = IF ok THEN run_applied + 1 ELSE run_applied
                  /\ pc' = IF ok THEN "run" ELSE "idle"
                  /\ result' = IF ok THEN result ELSE "REJECTED"
    /\ UNCHANGED <<calls, auxVars>>

(***************************************************************************)
(* TuringMachine::Reset(new_data) and TuringMachine::SetMaxSteps.          *)
(***************************************************************************)
\* Reset as it would be if the tape kept its modifications
ResetKeepsModifications ==
    /\ pc = "idle"
    /\ calls < MaxCalls
    /\ \E new_data \in Inputs :
        /\ strip_' = LazySeq(TapeGenerator(new_data, blank_symbol_), INF)
        /\ ev' = [Event("Reset", FALSE) EXCEPT !.data = new_data]
    /\ current_state_' = initial_state_
    /\ position_' = initial_position_
    /\ min_position_' = initial_position_
    /\ max_position_' = initial_position_
    /\ step_count_' = 0
    /\ calls' = calls + 1
    /\ applied' = 0
    /\ UNCHANGED <<initial_state_, final_states_, rules_map_, initial_position_,
                   max_steps_, blank_symbol_, modifications_, pc, result, step_ret, run_applied,
                   auxVars>>

\* Reset as it would be if it restored the default step limit
ResetDefaultLimit ==
    /\ pc = "idle"
    /\ calls < MaxCalls
    /\ \E new_data \in Inputs :
        /\ strip_' = LazySeq(TapeGenerator(new_data, blank_symbol_), INF)
        /\ ev' = [Event("Reset", FALSE) EXCEPT !.data = new_data]
    /\ current_state_' = initial_state_
    /\ position_' = initial_position_
    /\ min_position_' = initial_position_
    /\ max_position_' = initial_position_
    /\ modifications_' = <<>>
    /\ step_count_' = 0
    /\ max_steps_' = DefaultMaxSteps
    /\ calls' = calls + 1
    /\ applied' = 0
    /\ UNCHANGED <<initial_state_, final_states_, rules_map_, initial_position_,
                   blank_symbol_, pc, result, step_ret, run_applied,
                   auxVars>>

Reset ==
    /\ pc = "idle"
    /\ calls < MaxCalls
    /\ \E new_data \in Inputs :
        /\ strip_' = LazySeq(TapeGenerator(new_data, blank_symbol_), INF)
        /\ ev' = [Event("Reset", FALSE) EXCEPT !.data = new_data]
    /\ current_state_' = initial_state_
    /\ position_' = initial_position_
    /\ min_position_' = initial_position_
    /\ max_position_' = initial_position_
    /\ modifications_' = <<>>
    /\ step_count_' = 0
    /\ calls' = calls + 1
    /\ applied' = 0
    /\ UNCHANGED <<initial_state_, final_states_, rules_map_, initial_position_,
                   max_steps_, blank_symbol_, pc, result, step_ret, run_applied,
                   auxVars>>

SetMaxSteps ==
    /\ pc = "idle"
    /\ calls < MaxCalls
    /\ \E max_steps \in Limits : max_steps_' = max_steps
    /\ ev' = Event("SetMaxSteps", FALSE)
    /\ calls' = calls + 1
    /\ UNCHANGED <<stateVars, rules_map_, headVars, step_count_, tapeVars,
                   pc, result, step_ret, applied, run_applied, auxVars>>

Next ==
    \/ AddTransition
    \/ AddFinalState
    \/ Step
    \/ Run
    \/ RunLoop
    \/ Reset
    \/ SetMaxSteps

Spec == Init /\ [][Next]_vars

\* A client that configures the machine and then only steps and runs it.
\* Run's loop is never abandoned: every pass that can be made is made.
RunNext ==
    \/ AddTransition
    \/ AddFinalState
    \/ Step
    \/ Run
    \/ RunLoop

FairSpec == Init /\ [][RunNext]_vars /\ WF_vars(RunLoop)

(***************************************************************************)
(* A machine constructed with any initial head position, then configured,  *)
(* stepped, run and reset with new data.                                   *)
(***************************************************************************)
\* the values of the constructor's initial_head_position
HeadStarts == {0, 1}

LoadInit ==
    \E initial_data \in Inputs, initial_head_position \in HeadStarts :
        Machine(initial_data, initial_head_position) /\ NoAux

LoadNext ==
    \/ AddTransition
    \/ AddFinalState
    \/ Step
    \/ Run
    \/ RunLoop
    \/ Reset

LoadSpec == LoadInit /\ [][LoadNext]_vars

(***************************************************************************)
(* The binary inverter of tests.cpp (TestBinaryInverterLazy), built on a   *)
(* TuringMachine: state START is "q0", state FINAL is "q1", the blank is   *)
(* "_".  The machine is constructed on a binary word, given the three      *)
(* rules and the final state in any order, and run.                        *)
(***************************************************************************)
Bits == {"0", "1"}
Words == SeqsUpTo(Bits, MaxWord)

InverterRules ==
    {[from_state |-> "q0", read_symbol |-> "0", to_state |-> "q0",
      write_symbol |-> "1", direction |-> "RIGHT"],
     [from_state |-> "q0", read_symbol |-> "1", to_state |-> "q0",
      write_symbol |-> "0", direction |-> "RIGHT"],
     [from_state |-> "q0", read_symbol |-> "_", to_state |-> "q1",
      write_symbol |-> "_", direction |-> "STAY"]}

InverterInit == \E w \in Words : Construct(w)

AddInverterRule ==
    /\ pc = "idle"
    /\ calls = 0
    /\ \E rule \in InverterRules : rules_map_' = AddRule(rules_map_, rule)
    /\ UNCHANGED <<stateVars, headVars, statVars, tapeVars, ctlVars, auxVars>>

AddInverterFinalState ==
    /\ pc = "idle"
    /\ calls = 0
    /\ final_states_' = final_states_ \cup {"q1"}
    /\ UNCHANGED <<current_state_, initial_state_, rules_map_, headVars, statVars,
                   tapeVars, ctlVars, auxVars>>

\* Run() with the default limit, or Run(max_steps) with a limit around the
\* length of the word
InverterRun == \E max_steps \in 0..(MaxWord + 2) : RunCall(max_steps)

InverterNext ==
    \/ AddInverterRule
    \/ AddInverterFinalState
    \/ InverterRun
    \/ RunLoop

InverterSpec == InverterInit /\ [][InverterNext]_vars

(***************************************************************************)
(* Copies.  A client copies the machine and goes on using the original or  *)
(* the copy.  The variables of the machine are the machine in use; copy_   *)
(* holds the other one.  A machine owns its components through UniquePtr   *)
(* (SmartPtrs.h), whose copy is, as the specification requires, a deep     *)
(* one: the copy gets components of its own, built by their copy           *)
(* constructors.                                                           *)
(***************************************************************************)
\* the rule tables with no rule or the one rule of an AddTransition call
OneRuleTables == {<<>>} \cup {AddRule(<<>>, rule) : rule \in Rules}

\* a machine constructed and then configured by at most one AddTransition
\* call and by AddFinalState calls
CopyInit ==
    \E initial_data \in Inputs, table \in OneRuleTables, finals \in SUBSET States :
        Configured(initial_data, 0, table, finals) /\ NoAux

\* LazySeq's copy constructor
LazySeqCopy(other) ==
    [mem_ |-> other.mem_, gen_ |-> other.gen_, max_len_ |-> other.max_len_]

\* the machine in use, as a record of its components' fields
MachineInUse ==
    [current_state_ |-> current_state_, initial_state_ |-> initial_state_,
     final_states_ |-> final_states_, rules_map_ |-> rules_map_,
     position_ |-> position_, initial_position_ |-> initial_position_,
     min_position_ |-> min_position_, max_position_ |-> max_position_,
     step_count_ |-> step_count_, max_steps_ |-> max_steps_,
     blank_symbol_ |-> blank_symbol_, modifications_ |-> modifications_,
     strip_ |-> strip_]

\* the copy as it would be if it pointed to the tape of the machine it is
\* copied from
CopyOfSharingTape(machine) ==
    [made |-> TRUE, on_copy |-> FALSE, tape |-> "shared",
     m |-> [machine EXCEPT !.strip_ = LazySeqCopy(machine.strip_)]]

\* the copy of a machine: every component is copied, the tape is its own
CopyOf(machine) ==
    [made |-> TRUE, on_copy |-> FALSE, tape |-> "own",
     m |-> [machine EXCEPT !.strip_ = LazySeqCopy(machine.strip_)]]

\* TuringMachine's copy constructor
CopyMachine ==
    /\ pc = "idle"
    /\ ~copy_.made
    /\ copy_' = CopyOf(MachineInUse)
    /\ ev' = TapeEvent("CopyMachine", 0, "_")
    /\ UNCHANGED <<stateVars, rules_map_, headVars, statVars, tapeVars,
                   pc, result, step_ret, calls, applied, run_applied, lazy_, lazy_calls,
                   gen_, gen_log, added_, written_, held_>>

\* the client turns from the original to the copy: the machine in use and
\* the one held in copy_ change places
UseOther ==
    /\ pc = "idle"
    /\ copy_.made /\ ~copy_.on_copy
    /\ current_state_' = copy_.m.current_state_
    /\ initial_state_' = copy_.m.initial_state_
    /\ final_states_' = copy_.m.final_states_
    /\ rules_map_' = copy_.m.rules_map_
    /\ position_' = copy_.m.position_
    /\ initial_position_' = copy_.m.initial_position_
    /\ min_position_' = copy_.m.min_position_
    /\ max_position_' = copy_.m.max_position_
    /\ step_count_' = copy_.m.step_count_
    /\ max_steps_' = copy_.m.max_steps_
    /\ blank_symbol_' = copy_.m.blank_symbol_
    /\ modifications_' = copy_.m.modifications_
    /\ strip_' = copy_.m.strip_
    /\ copy_' = [copy_ EXCEPT !.on_copy = ~@, !.m = MachineInUse]
    /\ ev' = TapeEvent("UseOther", 0, "_")
    /\ UNCHANGED <<pc, result, step_ret, calls, applied, run_applied, lazy_, lazy_calls,
                   gen_, gen_log, added_, written_, held_>>

\* TuringMachine::SetSymbolAt: a write to the tape of the machine in use,
\* made where its head is
WriteSymbolAt ==
    /\ pc = "idle"
    /\ calls < MaxCalls
    /\ \E position \in {position_}, symbol \in Symbols :
        /\ modifications_' = SetSymbolAt(modifications_, position, symbol)
        /\ ev' = TapeEvent("SetSymbolAt", position, symbol)
    /\ calls' = calls + 1
    /\ UNCHANGED <<stateVars, rules_map_, headVars, statVars, blank_symbol_, strip_,
                   pc, result, step_ret, applied, run_applied, auxVars>>

CopyNext ==
    \/ Step
    \/ Run
    \/ RunLoop
    \/ Reset
    \/ WriteSymbolAt
    \/ CopyMachine
    \/ UseOther

CopySpec == CopyInit /\ [][CopyNext]_vars

(***************************************************************************)
(* A LazySeq on its own, over any of the generators of Gen.h and with any  *)
(* maximum length; a client calls Get.  The callable of a FunctionGenerator*)
(* returns the elements of outs one after the other and then either fails  *)
(* or, if endless, returns blanks for ever; invoked counts its invocations.*)
(***************************************************************************)
FunctionGenerator(outs, endless) ==
    [kind |-> "function", has_next_ |-> TRUE, outs |-> outs, endless |-> endless,
     invoked |-> 0]
ConstantGenerator(value) == [kind |-> "constant", constant_value_ |-> value]
SequenceGenerator(data, default_val) ==
    [kind |-> "sequence", data_ |-> data, current_index_ |-> 0,
     default_value_ |-> default_val]
WrappedTapeGenerator(initial_data, blank_symbol) ==
    [kind |-> "tape", tape |-> TapeGenerator(initial_data, blank_symbol)]

\* FunctionGenerator::GetNext as it would be without the has_next_ check:
\* the callable is invoked again after it has failed
FunctionGetNextRetries(gen) ==
    IF gen.invoked < Len(gen.outs)
    THEN [ok |-> TRUE, value |-> gen.outs[gen.invoked + 1],
          gen |-> [gen EXCEPT !.invoked = @ + 1], invoked |-> 1]
    ELSE IF gen.endless
    THEN [ok |-> TRUE, value |-> "_",
          gen |-> [gen EXCEPT !.invoked = @ + 1], invoked |-> 1]
    ELSE [ok |-> FALSE, value |-> "_",
          gen |-> [gen EXCEPT !.has_next_ = FALSE, !.invoked = @ + 1], invoked |-> 1]

\* FunctionGenerator::GetNext: whether it returns (ok) or throws, the value,
\* the generator it leaves and how often it invoked the callable
FunctionGetNext(gen) ==
    IF ~gen.has_next_
    THEN [ok |-> FALSE, value |-> "_", gen |-> gen, invoked |-> 0]
    ELSE IF gen.invoked < Len(gen.outs)
    THEN [ok |-> TRUE, value |-> gen.outs[gen.invoked + 1],
          gen |-> [gen EXCEPT !.invoked = @ + 1], invoked |-> 1]
    ELSE IF gen.endless
    THEN [ok |-> TRUE, value |-> "_",
          gen |-> [gen EXCEPT !.invoked = @ + 1], invoked |-> 1]
    ELSE [ok |-> FALSE, value |-> "_",
          gen |-> [gen EXCEPT !.has_next_ = FALSE, !.invoked = @ + 1], invoked |-> 1]

\* ConstantGenerator::GetNext
ConstantGetNext(gen) ==
    [ok |-> TRUE, value |-> gen.constant_value_, gen |-> gen, invoked |-> 0]

\* SequenceGenerator::GetNext
SequenceGetNext(gen) ==
    IF gen.current_index_ < Len(gen.data_)
    THEN [ok |-> TRUE, value |-> gen.data_[gen.current_index_ + 1],
          gen |-> [gen EXCEPT !.current_index_ = @ + 1], invoked |-> 0]
    ELSE [ok |-> TRUE, value |-> gen.default_value_, gen |-> gen, invoked |-> 0]

\* gen_.GetNext() for the generator a LazySeq holds
GenGetNext(gen) ==
    CASE gen.kind = "function" -> FunctionGetNext(gen)
      [] gen.kind = "constant" -> ConstantGetNext(gen)
      [] gen.kind = "sequence" -> SequenceGetNext(gen)
      [] gen.kind = "tape" ->
            LET n == GetNext(gen.tape)
            IN [ok |-> TRUE, value |-> n.value, gen |-> [gen EXCEPT !.tape = n.gen],
                invoked |-> 0]

\* the loop of LazySeq::Get for any generator: the sequence it leaves, the
\* GetNext calls it made, the invocations of a callable they made and
\* whether it ended on a GetNext that threw
RECURSIVE LazyGrow(_, _, _, _)
LazyGrow(seq, i, gets, invoked) ==
    IF MaterializedCount(seq) <= i /\ MaterializedCount(seq) < seq.max_len_
    THEN LET n == GenGetNext(seq.gen_)
         IN IF n.ok
            THEN LazyGrow([seq EXCEPT !.mem_ = Append(@, n.value), !.gen_ = n.gen],
                          i, gets + 1, invoked + n.invoked)
            ELSE [seq |-> [seq EXCEPT !.gen_ = n.gen], gets |-> gets + 1,
                  invoked |-> invoked + n.invoked, failed |-> TRUE]
    ELSE [seq |-> seq, gets |-> gets, invoked |-> invoked, failed |-> FALSE]

\* LazySeq::Get as it would be if a hit fetched one more element ahead
LazyGetPrefetch(seq, i) ==
    IF MemGet(seq, i) # {}
    THEN LET grown == LazyGrow(seq, MaterializedCount(seq), 0, 0)
         IN [hit |-> MemGet(seq, i), seq |-> grown.seq, gets |-> grown.gets,
             invoked |-> grown.invoked, failed |-> grown.failed]
    ELSE LET grown == LazyGrow(seq, i, 0, 0)
         IN [hit |-> MemGet(grown.seq, i), seq |-> grown.seq, gets |-> grown.gets,
             invoked |-> grown.invoked, failed |-> grown.failed]

\* LazySeq::Get as it would be if it grew the store up to index i - 1 only
LazyGetOffByOne(seq, i) ==
    IF MemGet(seq, i) # {}
    THEN [hit |-> MemGet(seq, i), seq |-> seq, gets |-> 0, invoked |-> 0,
          failed |-> FALSE]
    ELSE LET grown == LazyGrow(seq, i - 1, 0, 0)
         IN [hit |-> MemGet(grown.seq, i), seq |-> grown.seq, gets |-> grown.gets,
             invoked |-> grown.invoked, failed |-> grown.failed]

\* LazySeq::Get as it would be if a GetNext that threw left a blank element
\* in the store
LazyGetAppendsOnFailure(seq, i) ==
    IF MemGet(seq, i) # {}
    THEN [hit |-> MemGet(seq, i), seq |-> seq, gets |-> 0, invoked |-> 0,
          failed |-> FALSE]
    ELSE LET grown == LazyGrow(seq, i, 0, 0)
             left == IF grown.failed
                     THEN [grown.seq EXCEPT !.mem_ = Append(@, "_")]
                     ELSE grown.seq
         IN [hit |-> MemGet(left, i), seq |-> left, gets |-> grown.gets,
             invoked |-> grown.invoked, failed |-> grown.failed]

\* LazySeq::Get as it would be with an if in place of the while: a miss
\* appends one element at most
LazyGetGrowsOnce(seq, i) ==
    IF MemGet(seq, i) # {}
    THEN [hit |-> MemGet(seq, i), seq |-> seq, gets |-> 0, invoked |-> 0,
          failed |-> FALSE]
    ELSE LET grown == LazyGrow(seq, Min(i, MaterializedCount(seq)), 0, 0)
         IN [hit |-> MemGet(grown.seq, i), seq |-> grown.seq, gets |-> grown.gets,
             invoked |-> grown.invoked, failed |-> grown.failed]

\* LazySeq::Get for any generator
LazyGet(seq, i) ==
    IF MemGet(seq, i) # {}
    THEN [hit |-> MemGet(seq, i), seq |-> seq, gets |-> 0, invoked |-> 0,
          failed |-> FALSE]
    ELSE LET grown == LazyGrow(seq, i, 0, 0)
         IN [hit |-> MemGet(grown.seq, i), seq |-> grown.seq, gets |-> grown.gets,
             invoked |-> grown.invoked, failed |-> grown.failed]

Generators ==
    {FunctionGenerator(outs, endless) : outs \in TapeData, endless \in BOOLEAN}
    \cup {ConstantGenerator(value) : value \in Symbols}
    \cup {SequenceGenerator(data, default_val) : data \in TapeData, default_val \in Symbols}
    \cup {WrappedTapeGenerator(data, blank) : data \in TapeData, blank \in Symbols}
\* the maximum lengths: short ones and none
Lengths == 0..(MaxIndex + 1) \cup {INF}

LazyInit ==
    /\ Machine(<<>>, 0)
    /\ copy_ = NoCopy
    /\ lazy_calls = <<>>
    /\ gen_ = NoGen /\ gen_log = NoLog
    /\ added_ = <<>>
    /\ written_ = {} /\ held_ = {}
    /\ \E gen \in Generators, max_len \in Lengths : lazy_ = LazySeq(gen, max_len)

\* a client's call of Get(i); lazy_calls keeps this call and the one before
LazyGetCall ==
    /\ \E i \in 0..MaxIndex :
        LET got == LazyGet(lazy_, i)
            call == [i |-> i, hit |-> got.hit, gets |-> got.gets, invoked |-> got.invoked,
                     failed |-> got.failed]
        IN /\ lazy_' = got.seq
           /\ lazy_calls' = IF lazy_calls = <<>> THEN <<call>>
                             ELSE <<lazy_calls[Len(lazy_calls)], call>>
    /\ UNCHANGED <<stateVars, rules_map_, headVars, statVars, tapeVars, ctlVars, copy_,
                   gen_, gen_log, added_, written_, held_>>

LazyNext == LazyGetCall

LazySpec == LazyInit /\ [][LazyNext]_vars

(***************************************************************************)
(* GenSpec: a generator of Gen.h used on its own by a client that calls    *)
(* GetNext, TryGetNext and HasNext in any order.  gen_ is the generator,   *)
(* gen_log the number of GetNext and TryGetNext calls made, the            *)
(* invocations of the wrapped callable, whether the callable has failed,   *)
(* and the last call with its outcome.                                     *)
(***************************************************************************)
\* FunctionGenerator::HasNext
FunctionHasNext(gen) == gen.has_next_

\* FunctionGenerator::TryGetNext as it would be if the failure of the
\* callable were not remembered
FunctionTryGetNextForgets(gen) ==
    IF ~gen.has_next_
    THEN [ok |-> FALSE, value |-> "_", gen |-> gen, invoked |-> 0]
    ELSE IF gen.invoked < Len(gen.outs)
    THEN [ok |-> TRUE, value |-> gen.outs[gen.invoked + 1],
          gen |-> [gen EXCEPT !.invoked = @ + 1], invoked |-> 1]
    ELSE IF gen.endless
    THEN [ok |-> TRUE, value |-> "_",
          gen |-> [gen EXCEPT !.invoked = @ + 1], invoked |-> 1]
    ELSE [ok |-> FALSE, value |-> "_",
          gen |-> [gen EXCEPT !.invoked = @ + 1], invoked |-> 1]

\* FunctionGenerator::TryGetNext: whether it returns a value (ok) or nullopt
FunctionTryGetNext(gen) ==
    IF ~gen.has_next_
    THEN [ok |-> FALSE, value |-> "_", gen |-> gen, invoked |-> 0]
    ELSE IF gen.invoked < Len(gen.outs)
    THEN [ok |-> TRUE, value |-> gen.outs[gen.invoked + 1],
          gen |-> [gen EXCEPT !.invoked = @ + 1], invoked |-> 1]
    ELSE IF gen.endless
    THEN [ok |-> TRUE, value |-> "_",
          gen |-> [gen EXCEPT !.invoked = @ + 1], invoked |-> 1]
    ELSE [ok |-> FALSE, value |-> "_",
          gen |-> [gen EXCEPT !.has_next_ = FALSE, !.invoked = @ + 1], invoked |-> 1]

\* ConstantGenerator::TryGetNext
ConstantTryGetNext(gen) ==
    [ok |-> TRUE, value |-> gen.constant_value_, gen |-> gen, invoked |-> 0]

\* SequenceGenerator::TryGetNext as it would be if the index into the data
\* never advanced
SequenceTryGetNextStuck(gen) ==
    IF gen.current_index_ < Len(gen.data_)
    THEN [ok |-> TRUE, value |-> gen.data_[gen.current_index_ + 1],
          gen |-> gen, invoked |-> 0]
    ELSE [ok |-> TRUE, value |-> gen.default_value_, gen |-> gen, invoked |-> 0]

\* SequenceGenerator::TryGetNext
SequenceTryGetNext(gen) ==
    IF gen.current_index_ < Len(gen.data_)
    THEN [ok |-> TRUE, value |-> gen.data_[gen.current_index_ + 1],
          gen |-> [gen EXCEPT !.current_index_ = @ + 1], invoked |-> 0]
    ELSE [ok |-> TRUE, value |-> gen.default_value_, gen |-> gen, invoked |-> 0]

\* TapeGenerator::TryGetNext as it would be if it left using_sequence_ set
\* beyond the data
TryGetNextKeepsSequence(gen) ==
    IF gen.using_sequence_ /\ IsInDataRange(gen)
    THEN LET n == SequenceTryGetNext(gen)
         IN [value |-> n.value, gen |-> n.gen]
    ELSE [value |-> ConstantTryGetNext(gen).value, gen |-> gen]

\* TapeGenerator::TryGetNext: sequence_gen_.TryGetNext() within the data,
\* constant_gen_.TryGetNext() from then on
TryGetNext(gen) ==
    IF gen.using_sequence_ /\ IsInDataRange(gen)
    THEN LET n == SequenceTryGetNext(gen)
         IN [value |-> n.value, gen |-> n.gen]
    ELSE [value |-> ConstantTryGetNext(gen).value,
          gen |-> [gen EXCEPT !.using_sequence_ = FALSE]]

GenTryGetNext(gen) ==
    CASE gen.kind = "function" -> FunctionTryGetNext(gen)
      [] gen.kind = "constant" -> ConstantTryGetNext(gen)
      [] gen.kind = "sequence" -> SequenceTryGetNext(gen)
      [] gen.kind = "tape" ->
            LET n == TryGetNext(gen.tape)
            IN [ok |-> TRUE, value |-> n.value, gen |-> [gen EXCEPT !.tape = n.gen],
                invoked |-> 0]

\* HasNext: has_next_ of a FunctionGenerator, true of every other generator
GenHasNext(gen) ==
    IF gen.kind = "function" THEN FunctionHasNext(gen) ELSE TRUE

\* the calls a client makes on one generator, and the data it may be built on
GenCalls == MaxIndex + 2
GenData == SeqsUpTo(Symbols, MaxData + 1)
GenGenerators ==
    {FunctionGenerator(outs, endless) : outs \in GenData, endless \in BOOLEAN}
    \cup {ConstantGenerator(value) : value \in Symbols}
    \cup {SequenceGenerator(data, default_val) : data \in GenData, default_val \in Symbols}
    \cup {WrappedTapeGenerator(data, blank) : data \in GenData, blank \in Symbols}

GenInit ==
    /\ Machine(<<>>, 0)
    /\ copy_ = NoCopy /\ lazy_ = NoLazy /\ lazy_calls = <<>>
    /\ added_ = <<>>
    /\ written_ = {} /\ held_ = {}
    /\ gen_log = NoLog
    /\ gen_ \in GenGenerators

\* the log after a GetNext or TryGetNext call with outcome n
Logged(op, n) ==
    [calls |-> gen_log.calls + 1,
     invoked |-> gen_log.invoked + n.invoked,
     failed |-> gen_log.failed \/ (n.invoked = 1 /\ ~n.ok),
     last |-> [op |-> op, ok |-> n.ok, value |-> n.value, invoked |-> n.invoked]]

GenNoMachine ==
    UNCHANGED <<stateVars, rules_map_, headVars, statVars, tapeVars, ctlVars, copy_,
                lazy_, lazy_calls, added_, written_, held_>>

GetNextCall ==
    /\ gen_log.calls < GenCalls
    /\ LET n == GenGetNext(gen_)
       IN gen_' = n.gen /\ gen_log' = Logged("GetNext", n)
    /\ GenNoMachine

TryGetNextCall ==
    /\ gen_log.calls < GenCalls
    /\ LET n == GenTryGetNext(gen_)
       IN gen_' = n.gen /\ gen_log' = Logged("TryGetNext", n)
    /\ GenNoMachine

HasNextCall ==
    /\ gen_log' = [gen_log EXCEPT !.last = [op |-> "HasNext", ok |-> GenHasNext(gen_),
                                             value |-> "_", invoked |-> 0]]
    /\ UNCHANGED gen_
    /\ GenNoMachine

GenNext == GetNextCall \/ TryGetNextCall \/ HasNextCall

GenSpec == GenInit /\ [][GenNext]_vars

(***************************************************************************)
(* RuleSpec: the rule table of a TransitionManager under AddRule calls.    *)
(* added_ is the sequence of the rules added since construction.           *)
(***************************************************************************)
\* the rules a client adds: every key, with two target states and two
\* written symbols for each
AddedRules == {rule \in Rules : rule.direction = "RIGHT"}

RuleInit == Construct(<<>>)

AddRuleCall ==
    /\ Len(added_) < MaxAdds
    /\ \E rule \in AddedRules :
        /\ rules_map_' = AddRule(rules_map_, rule)
        /\ added_' = Append(added_, rule)
    /\ UNCHANGED <<stateVars, headVars, statVars, tapeVars, ctlVars, copy_, lazy_,
                   lazy_calls, gen_, gen_log, written_, held_>>

RuleNext == AddRuleCall

RuleSpec == RuleInit /\ [][RuleNext]_vars

(***************************************************************************)
(* The tape on its own: a client reads, writes and resets the tape of a    *)
(* machine through TuringMachine::SetSymbolAt, TuringMachine::GetSymbolAt  *)
(* and, through TuringMachine::GetStrip, TuringStrip::Reset,               *)
(* ClearModifications and ApplyModifications.                              *)
(***************************************************************************)
TapeInit == \E initial_data \in TapeData : Construct(initial_data)

\* SetSymbolAt as it would be if the write read the cell first, through the
\* base sequence
TapeSetSymbolAtThroughBase ==
    /\ \E position \in TapePositions, symbol \in Symbols :
        /\ strip_' = GetSymbolAt(strip_, <<>>, blank_symbol_, position).strip
        /\ modifications_' = SetSymbolAt(modifications_, position, symbol)
        /\ ev' = TapeEvent("SetSymbolAt", position, symbol)
    /\ UNCHANGED <<stateVars, rules_map_, headVars, statVars, blank_symbol_,
                   pc, result, step_ret, calls, applied, run_applied, auxVars>>

TapeSetSymbolAt ==
    /\ \E position \in TapePositions, symbol \in Symbols :
        /\ modifications_' = SetSymbolAt(modifications_, position, symbol)
        /\ ev' = TapeEvent("SetSymbolAt", position, symbol)
    /\ UNCHANGED <<stateVars, rules_map_, headVars, statVars, blank_symbol_, strip_,
                   pc, result, step_ret, calls, applied, run_applied, auxVars>>

TapeGetSymbolAt ==
    /\ \E position \in TapePositions :
        LET rd == GetSymbolAt(strip_, modifications_, blank_symbol_, position)
        IN /\ strip_' = rd.strip
           /\ ev' = TapeEvent("GetSymbolAt", position, rd.symbol)
    /\ UNCHANGED <<stateVars, rules_map_, headVars, statVars, blank_symbol_,
                   modifications_, pc, result, step_ret, calls, applied, run_applied,
                   auxVars>>

\* TuringStrip::Reset as it would be if only the base sequence were replaced
TapeResetKeepsOverlay ==
    /\ \E new_initial_data \in TapeData :
        /\ strip_' = LazySeq(TapeGenerator(new_initial_data, blank_symbol_), INF)
        /\ ev' = [TapeEvent("TapeReset", Cardinality(DOMAIN modifications_), "_")
                     EXCEPT !.data = new_initial_data,
                            !.len = MaterializedCount(strip_)]
    /\ UNCHANGED <<stateVars, rules_map_, headVars, statVars, blank_symbol_,
                   modifications_, pc, result, step_ret, calls, applied, run_applied,
                   auxVars>>

\* TuringStrip::Reset; the event keeps the data it was called with, in pos the
\* number of written cells it found and in len the number of elements the
\* base sequence had materialized
TapeReset ==
    /\ \E new_initial_data \in TapeData :
        /\ strip_' = LazySeq(TapeGenerator(new_initial_data, blank_symbol_), INF)
        /\ ev' = [TapeEvent("TapeReset", Cardinality(DOMAIN modifications_), "_")
                     EXCEPT !.data = new_initial_data,
                            !.len = MaterializedCount(strip_)]
    /\ modifications_' = <<>>
    /\ UNCHANGED <<stateVars, rules_map_, headVars, statVars, blank_symbol_,
                   pc, result, step_ret, calls, applied, run_applied, auxVars>>

TapeClearModifications ==
    /\ modifications_' = ClearModifications(modifications_)
    /\ ev' = TapeEvent("ClearModifications", 0, "_")
    /\ UNCHANGED <<stateVars, rules_map_, headVars, statVars, blank_symbol_, strip_,
                   pc, result, step_ret, calls, applied, run_applied, auxVars>>

TapeApplyModifications ==
    /\ modifications_' = ApplyModifications(modifications_)
    /\ ev' = TapeEvent("ApplyModifications", 0, "_")
    /\ UNCHANGED <<stateVars, rules_map_, headVars, statVars, blank_symbol_, strip_,
                   pc, result, step_ret, calls, applied, run_applied, auxVars>>

TapeNext ==
    \/ TapeSetSymbolAt
    \/ TapeGetSymbolAt
    \/ TapeReset
    \/ TapeClearModifications
    \/ TapeApplyModifications

TapeSpec == TapeInit /\ [][TapeNext]_vars

(***************************************************************************)
(* SegmentSpec: a tape whose client writes a cell to the left of the data  *)
(* and a cell to the right of position 0, and takes segments of it.        *)
(***************************************************************************)
SegmentCells == {0 - 1, 1}

SegmentSetSymbolAt ==
    /\ \E position \in SegmentCells, symbol \in Symbols :
        /\ modifications_' = SetSymbolAt(modifications_, position, symbol)
        /\ ev' = TapeEvent("SetSymbolAt", position, symbol)
    /\ UNCHANGED <<stateVars, rules_map_, headVars, statVars, blank_symbol_, strip_,
                   pc, result, step_ret, calls, applied, run_applied, auxVars>>

\* the lengths of the segments a client asks for
SegmentLengths == 0..(MaxData + 2)

TapeGetSegment ==
    /\ \E start_pos \in TapePositions, length \in SegmentLengths :
        LET got == GetSegment(strip_, modifications_, blank_symbol_, start_pos, length)
        IN /\ strip_' = got.strip
           /\ ev' = [TapeEvent("GetSegment", start_pos, "_")
                        EXCEPT !.data = got.segment, !.len = length]
    /\ UNCHANGED <<stateVars, rules_map_, headVars, statVars, blank_symbol_,
                   modifications_, pc, result, step_ret, calls, applied, run_applied,
                   auxVars>>

SegmentNext == SegmentSetSymbolAt \/ TapeGetSegment

SegmentSpec == TapeInit /\ [][SegmentNext]_vars

(***************************************************************************)
(* OverlaySpec: a machine with one rule whose client steps it and, through *)
(* GetStrip(), reads and writes the cells beside position 0 and clears and *)
(* resets its tape.  written_ is the set of positions written, by the      *)
(* client or by a step, since the last Reset or ClearModifications.        *)
(***************************************************************************)
\* TuringStrip::GetModificationsCount
GetModificationsCount(mods) == Cardinality(DOMAIN mods)

\* the tables of one rule that keeps the machine in its initial state
OverlayTables ==
    {AddRule(<<>>, rule) :
        rule \in {r \in Rules : r.from_state = "q0" /\ r.to_state = "q0"}}

OverlayInit ==
    \E initial_data \in Inputs, table \in OverlayTables :
        Configured(initial_data, 0, table, {}) /\ NoAux

OverlayNoMachine ==
    UNCHANGED <<stateVars, rules_map_, headVars, statVars, blank_symbol_,
                pc, result, step_ret, calls, applied, run_applied,
                copy_, lazy_, lazy_calls, gen_, gen_log, added_, held_>>

OverlaySetSymbolAt ==
    /\ \E position \in SegmentCells, symbol \in Symbols :
        /\ modifications_' = SetSymbolAt(modifications_, position, symbol)
        /\ written_' = written_ \cup {position}
        /\ ev' = TapeEvent("SetSymbolAt", position, symbol)
    /\ UNCHANGED strip_
    /\ OverlayNoMachine

OverlayGetSymbolAt ==
    /\ \E position \in SegmentCells :
        LET rd == GetSymbolAt(strip_, modifications_, blank_symbol_, position)
        IN /\ strip_' = rd.strip
           /\ ev' = TapeEvent("GetSymbolAt", position, rd.symbol)
    /\ UNCHANGED <<modifications_, written_>>
    /\ OverlayNoMachine

\* a client's call of Step; the step writes where the head is when it
\* applies a rule
OverlayStep ==
    /\ pc = "idle"
    /\ calls < MaxCalls
    /\ \E ok \in BOOLEAN :
        /\ StepBody(ok)
        /\ step_ret' = ok
        /\ applied' = IF ok THEN applied + 1 ELSE applied
        /\ written_' = IF ok THEN written_ \cup {position_} ELSE written_
    /\ ev' = [Event("Step", TRUE) EXCEPT !.pos = position_]
    /\ calls' = calls + 1
    /\ UNCHANGED <<pc, result, run_applied,
                   copy_, lazy_, lazy_calls, gen_, gen_log, added_, held_>>

OverlayClearModifications ==
    /\ modifications_' = ClearModifications(modifications_)
    /\ written_' = {}
    /\ ev' = TapeEvent("ClearModifications", 0, "_")
    /\ UNCHANGED strip_
    /\ OverlayNoMachine

OverlayReset ==
    /\ \E new_initial_data \in Inputs :
        /\ strip_' = LazySeq(TapeGenerator(new_initial_data, blank_symbol_), INF)
        /\ ev' = [TapeEvent("TapeReset", 0, "_") EXCEPT !.data = new_initial_data]
    /\ modifications_' = <<>>
    /\ written_' = {}
    /\ OverlayNoMachine

OverlayNext ==
    \/ OverlaySetSymbolAt
    \/ OverlayGetSymbolAt
    \/ OverlayStep
    \/ OverlayClearModifications
    \/ OverlayReset

OverlaySpec == OverlayInit /\ [][OverlayNext]_vars

(***************************************************************************)
(* BlankSpec: a tape whose client changes the blank symbol between reads,  *)
(* writes and resets.                                                      *)
(***************************************************************************)
\* SetBlankSymbol as it would be if it rebuilt the base over the new blank
TapeSetBlankSymbolRebuilds ==
    /\ \E blank_symbol \in Symbols :
        /\ blank_symbol_' = blank_symbol
        /\ strip_' = LazySeq(TapeGenerator(strip_.gen_.data_, blank_symbol), INF)
        /\ ev' = TapeEvent("SetBlankSymbol", 0, blank_symbol)
    /\ UNCHANGED <<stateVars, rules_map_, headVars, statVars, modifications_,
                   pc, result, step_ret, calls, applied, run_applied, auxVars>>

\* TuringStrip::SetBlankSymbol
TapeSetBlankSymbol ==
    /\ \E blank_symbol \in Symbols :
        /\ blank_symbol_' = blank_symbol
        /\ ev' = TapeEvent("SetBlankSymbol", 0, blank_symbol)
    /\ UNCHANGED <<stateVars, rules_map_, headVars, statVars, modifications_, strip_,
                   pc, result, step_ret, calls, applied, run_applied, auxVars>>

BlankNext ==
    \/ TapeSetBlankSymbol
    \/ SegmentSetSymbolAt
    \/ TapeGetSymbolAt
    \/ TapeReset

BlankSpec == TapeInit /\ [][BlankNext]_vars

(***************************************************************************)
(* HeadManager used on its own, through TuringMachine::GetHeadManager:     *)
(* Move, MoveBy, SetPosition, Reset and SetInitialPosition.  held_ is the  *)
(* set of positions the head has held since construction or the last      *)
(* Reset, every position MoveBy passes included.                           *)
(***************************************************************************)
HeadPositions == (0 - MaxHead)..MaxHead

\* HeadManager::MoveBy: the position and the range after |offset| moves
RECURSIVE MoveBy(_, _, _, _)
MoveBy(pos, lo, hi, offset) ==
    IF offset > 0
    THEN LET mv == Move(pos, lo, hi, "RIGHT")
         IN MoveBy(mv.position, mv.min, mv.max, offset - 1)
    ELSE IF offset < 0
    THEN LET mv == Move(pos, lo, hi, "LEFT")
         IN MoveBy(mv.position, mv.min, mv.max, offset + 1)
    ELSE [position |-> pos, min |-> lo, max |-> hi]

\* SetPosition as it would be if it only assigned the position
SetPositionKeepsRange(lo, hi, position) ==
    [position |-> position, min |-> lo, max |-> hi]

\* HeadManager::SetPosition: the position and the range after the call
SetPosition(lo, hi, position) ==
    [position |-> position,
     min |-> IF position < lo THEN position ELSE lo,
     max |-> IF position > hi THEN position ELSE hi]

\* HeadManager::GetTapeUsage
GetTapeUsage(lo, hi) == hi - lo + 1

\* the positions from a to b, in either order
Between(a, b) == Min(a, b)..Max(a, b)

HeadInit ==
    \E initial_position \in HeadPositions :
        /\ Machine(<<>>, initial_position)
        /\ copy_ = NoCopy
        /\ lazy_ = NoLazy /\ lazy_calls = <<>>
        /\ gen_ = NoGen /\ gen_log = NoLog
        /\ added_ = <<>>
        /\ written_ = {}
        /\ held_ = {initial_position}

\* what a call on the head manager leaves alone
HeadNoMachine ==
    UNCHANGED <<stateVars, rules_map_, statVars, tapeVars,
                pc, result, step_ret, calls, applied, run_applied,
                copy_, lazy_, lazy_calls, gen_, gen_log, added_, written_>>

\* the head manager's fields after a call that left it as head
HeadBecomes(head) ==
    /\ position_' = head.position
    /\ min_position_' = head.min
    /\ max_position_' = head.max

HeadMove ==
    /\ \E direction \in Directions :
        LET mv == Move(position_, min_position_, max_position_, direction)
        IN /\ mv.position \in HeadPositions
           /\ HeadBecomes(mv)
           /\ held_' = held_ \cup {mv.position}
           /\ ev' = TapeEvent("Move", 0, "_")
    /\ UNCHANGED initial_position_
    /\ HeadNoMachine

HeadMoveBy ==
    /\ \E offset \in HeadPositions :
        LET mv == MoveBy(position_, min_position_, max_position_, offset)
        IN /\ position_ + offset \in HeadPositions
           /\ HeadBecomes(mv)
           /\ held_' = held_ \cup Between(position_, position_ + offset)
           /\ ev' = TapeEvent("MoveBy", offset, "_")
    /\ UNCHANGED initial_position_
    /\ HeadNoMachine

HeadSetPosition ==
    /\ \E position \in HeadPositions :
        /\ HeadBecomes(SetPosition(min_position_, max_position_, position))
        /\ held_' = held_ \cup {position}
        /\ ev' = TapeEvent("SetPosition", position, "_")
    /\ UNCHANGED initial_position_
    /\ HeadNoMachine

HeadReset ==
    /\ position_' = initial_position_
    /\ min_position_' = initial_position_
    /\ max_position_' = initial_position_
    /\ held_' = {initial_position_}
    /\ ev' = TapeEvent("Reset", 0, "_")
    /\ UNCHANGED initial_position_
    /\ HeadNoMachine

\* SetInitialPosition assigns initial_position_ and calls Reset
HeadSetInitialPosition ==
    /\ \E position \in HeadPositions :
        /\ initial_position_' = position
        /\ position_' = position
        /\ min_position_' = position
        /\ max_position_' = position
        /\ held_' = {position}
        /\ ev' = TapeEvent("SetInitialPosition", position, "_")
    /\ HeadNoMachine

HeadNext ==
    \/ HeadMove
    \/ HeadMoveBy
    \/ HeadSetPosition
    \/ HeadReset
    \/ HeadSetInitialPosition

HeadSpec == HeadInit /\ [][HeadNext]_vars

(***************************************************************************)
(* The properties.  They are stated on the variables and on what a read of *)
(* the tape returns, not on the methods' own helpers.                      *)
(***************************************************************************)
\* enum Direction: the offset a direction stands for
DirValue(direction) ==
    CASE direction = "LEFT" -> 0 - 1
      [] direction = "STAY" -> 0
      [] direction = "RIGHT" -> 1

\* what a read of position p returns in the next state
ReadNext(p) == GetSymbolAt(strip_', modifications_', blank_symbol_', p).symbol

\* the key of the current configuration and whether the table holds it
CurrentKey == <<current_state_, ReadAt(position_)>>
KeyPresent == CurrentKey \in DOMAIN rules_map_

\* this step is a client's call of Step
DirectStep == pc = "idle" /\ ev'.op = "Step" /\ calls' = calls + 1
\* this step invokes Step, from a client or from Run's loop
StepInvoked == DirectStep \/ (pc = "run" /\ ev'.op = "RunLoop" /\ ev'.stepped)
\* Run has just returned
RunReturned == ev.op = "RunLoop" /\ pc = "idle"

\* Step returned false and changed neither state, head, counter nor any cell
StepRefused ==
    /\ step_ret' = FALSE
    /\ UNCHANGED <<current_state_, position_, step_count_>>
    /\ \A p \in Window : ReadNext(p) = ReadAt(p)

\* C1: a Step made below the step limit with a rule for (current state, symbol
\* under the head) returns true, writes the rule's symbol where the head was,
\* enters the rule's target state, moves the head by -1/0/+1 (below 0 too),
\* adds exactly 1 to the step counter and changes no other cell.
C1_StepAppliesOneRule ==
    [][(StepInvoked /\ step_count_ < max_steps_ /\ KeyPresent) =>
        LET r == rules_map_[CurrentKey]
        IN /\ step_ret' = TRUE
           /\ ReadNext(position_) = r.write_symbol
           /\ current_state_' = r.to_state
           /\ position_' = position_ + DirValue(r.direction)
           /\ step_count_' = step_count_ + 1
           /\ \A p \in Window \ {position_} : ReadNext(p) = ReadAt(p)]_vars

\* a Step has applied a rule and left the head at a negative position
C1_Witness ==
    /\ ev.stepped /\ ev.had_rule /\ ~ev.at_limit
    /\ step_ret = TRUE
    /\ position_ < 0

\* C2: when Run returns, ACCEPTED iff the current state is final; TIMEOUT iff
\* it is not final and the step counter has reached the limit; REJECTED iff it
\* is not final, the counter is below the limit and no rule exists for
\* (current state, symbol under the head).
C2_RunClassifies ==
    RunReturned =>
        /\ (result = "ACCEPTED") <=> (current_state_ \in final_states_)
        /\ (result = "TIMEOUT") <=>
              (current_state_ \notin final_states_ /\ step_count_ >= max_steps_)
        /\ (result = "REJECTED") <=>
              (/\ current_state_ \notin final_states_
               /\ step_count_ < max_steps_
               /\ ~KeyPresent)

\* a Run has applied a transition and then returned REJECTED
C2_Witness == RunReturned /\ result = "REJECTED" /\ step_count_ > 0

\* C3: with a step limit L >= 1, a Run whose L-th transition enters a final
\* state returns ACCEPTED, not TIMEOUT.
C3_FinalOnLastStepAccepted ==
    (/\ RunReturned
     /\ max_steps_ >= 1
     /\ run_applied = max_steps_
     /\ current_state_ \in final_states_)
    => (result = "ACCEPTED" /\ result # "TIMEOUT")

\* a Run has used up its limit, ended in a final state and returned ACCEPTED
C3_Witness ==
    /\ RunReturned
    /\ max_steps_ >= 1
    /\ run_applied = max_steps_
    /\ current_state_ \in final_states_
    /\ result = "ACCEPTED"

\* C4: Run always returns, and having applied at most as many transitions as
\* the step limit in force.
C4_RunTerminates ==
    /\ [](pc = "run" => run_applied <= max_steps_)
    /\ (pc = "run") ~> (pc = "idle" /\ result \in {"ACCEPTED", "REJECTED", "TIMEOUT"})

\* a Run over a rule set that loops has returned after exactly limit transitions
C4_Witness ==
    /\ RunReturned
    /\ result = "TIMEOUT"
    /\ max_steps_ >= 2
    /\ run_applied = max_steps_
    /\ KeyPresent

\* C5: counting from construction or the last Reset, over Step and Run calls
\* alike, the transitions applied never number more than the step limit.
C5_AppliedWithinLimit ==
    [][applied' > applied => applied' <= max_steps_']_vars

\* C6: a Step made in a final state returns false and changes neither the
\* state, the head, the step counter nor any cell, rule or no rule.
C6_StepInFinalStateRefused ==
    [][(DirectStep /\ current_state_ \in final_states_) => StepRefused]_vars

\* C7: a Step made when the step counter has reached the limit returns false
\* and changes neither the state, the head, the step counter nor any cell,
\* rule or no rule.
C7_StepAtLimitRefused ==
    [][(StepInvoked /\ step_count_ >= max_steps_) => StepRefused]_vars

\* a Step was called at the limit, outside a final state, with a rule at hand
C7_Witness ==
    /\ ev.op = "Step"
    /\ ev.at_limit /\ ev.had_rule /\ ~ev.was_final
    /\ step_ret = FALSE

\* C8, as stated: a Step with no rule for (current state, symbol under the
\* head) returns false and leaves state, head, step counter and modifications
\* alone; on a machine with no rules the first Step returns false, the step
\* count stays 0 and IsInFinalState is false.
C8_NoRuleStepAsStated ==
    [][(StepInvoked /\ ~KeyPresent) =>
        /\ step_ret' = FALSE
        /\ UNCHANGED <<current_state_, position_, step_count_, modifications_>>
        /\ (DOMAIN rules_map_ = {} /\ calls = 0) =>
              (step_count_' = 0 /\ current_state_' \notin final_states_')]_vars

\* C8, amended: as above, but after the first Step of a machine with no rules
\* IsInFinalState is false exactly when the initial state is not a final state.
C8_NoRuleStep ==
    [][(StepInvoked /\ ~KeyPresent) =>
        /\ step_ret' = FALSE
        /\ UNCHANGED <<current_state_, position_, step_count_, modifications_>>
        /\ (DOMAIN rules_map_ = {} /\ calls = 0) =>
              /\ step_count_' = 0
              /\ (current_state_' \in final_states_') <=>
                     (initial_state_ \in final_states_)]_vars

\* the first Step of a machine with no rules has returned false
C8_Witness ==
    /\ ev.op = "Step" /\ calls = 1
    /\ ~ev.had_rule /\ ~ev.at_limit
    /\ DOMAIN rules_map_ = {}
    /\ step_ret = FALSE /\ step_count_ = 0
    /\ current_state_ \notin final_states_

\* C9: a Run that ends outside a final state in a configuration that has a
\* rule (so that it met neither a final state nor a missing rule) returns
\* TIMEOUT with the step count equal to the step limit.
C9_LoopRunsToLimit ==
    (RunReturned /\ current_state_ \notin final_states_ /\ KeyPresent)
    => (result = "TIMEOUT" /\ step_count_ = max_steps_)

\* a Run has moved the head, run into the limit and returned TIMEOUT
C9_Witness ==
    /\ RunReturned
    /\ current_state_ \notin final_states_ /\ KeyPresent
    /\ result = "TIMEOUT"
    /\ step_count_ = max_steps_ /\ max_steps_ >= 1
    /\ position_ # initial_position_

\* C10: right after SetSymbolAt(p, s) a read of p returns s, for p < 0 as for
\* p >= 0, whether or not the base has materialized p or p is initial data.
C10_WriteThenRead ==
    ev.op = "SetSymbolAt" => ReadAt(ev.pos) = ev.sym

\* a cell of the initial data that the base had materialized has been
\* overwritten with another symbol
C10_Witness ==
    /\ ev.op = "SetSymbolAt"
    /\ ev.pos >= 0
    /\ ev.pos < Len(strip_.gen_.data_)
    /\ ev.pos < MaterializedCount(strip_)
    /\ strip_.mem_[ev.pos + 1] # ev.sym
\* what the base of the tape holds at position p, under the modifications
BaseAt(p) == GetSymbolAt(strip_, <<>>, blank_symbol_, p).symbol

FarPositions == (0 - MaxPos - 1)..(MaxPos + MaxData + 1)
\* the data the tape was last built from
BuiltFrom == strip_.gen_.data_

ResetCalled == pc = "idle" /\ ev'.op = "Reset" /\ calls' = calls + 1

\* C13: after Reset with no new data the current state is the initial state,
\* the head is at the configured initial head position, the step count is 0
\* and every tape position reads blank.
C13_ResetRestores ==
    (ev.op = "Reset" /\ ev.data = <<>>) =>
        /\ current_state_ = initial_state_
        /\ position_ = initial_position_
        /\ step_count_ = 0
        /\ \A p \in Window : ReadAt(p) = blank_symbol_

\* Reset with no new data was called on a machine constructed with a head
\* position other than 0, when a transition had taken it to a final state
\* that is not its initial state
C13_Witness ==
    /\ ev.op = "Reset" /\ ev.data = <<>>
    /\ ev.was_final /\ initial_state_ \notin final_states_
    /\ initial_position_ # 0

\* C14: Reset leaves the transition table, the final states, the initial
\* state, the blank symbol and the step limit as they were.
C14_ResetKeepsConfiguration ==
    [][ResetCalled =>
        UNCHANGED <<rules_map_, final_states_, initial_state_, blank_symbol_,
                    max_steps_>>]_vars

\* Reset was called on a machine with a rule, a final state and a step limit
\* other than the default
C14_Witness ==
    /\ ev.op = "Reset"
    /\ rules_map_ # <<>> /\ final_states_ # {}
    /\ max_steps_ # DefaultMaxSteps

\* the positions of the loaded data, the head starts and some on both sides
LoadWindow == (0 - MaxData - 2)..(MaxData + 2)

ReadOther(p) ==
    IF copy_.tape = "shared"
    THEN ReadAt(p)
    ELSE GetSymbolAt(copy_.m.strip_, copy_.m.modifications_, copy_.m.blank_symbol_, p).symbol
\* the same in the next state
ReadOtherNext(p) ==
    IF copy_'.tape = "shared"
    THEN ReadNext(p)
    ELSE GetSymbolAt(copy_'.m.strip_, copy_'.m.modifications_, copy_'.m.blank_symbol_, p).symbol

\* the tape of the machine held in copy_: its blank, overlay and base
TapeOther ==
    IF copy_.tape = "shared"
    THEN <<blank_symbol_, modifications_, strip_>>
    ELSE <<copy_.m.blank_symbol_, copy_.m.modifications_, copy_.m.strip_>>

\* C17: once a copy is made, a Step, Run, write or Reset (or any other call)
\* on the machine in use, be it the original or the copy, leaves the current
\* state, head position and step count of the other one as they were, and
\* its tape too (blank, overlay and base, hence the read of every position;
\* the reads around position 0 are compared as well).
C17_CopyIndependent ==
    [][(copy_.made /\ copy_'.made /\ copy_'.on_copy = copy_.on_copy) =>
        /\ copy_'.m.current_state_ = copy_.m.current_state_
        /\ copy_'.m.position_ = copy_.m.position_
        /\ copy_'.m.step_count_ = copy_.m.step_count_
        /\ TapeOther' = TapeOther
        /\ \A p \in TapePositions : ReadOtherNext(p) = ReadOther(p)]_vars

\* a Step on the copy has applied a rule and written a cell that the
\* original, untouched since the copy was made, reads differently
C17_Witness ==
    /\ copy_.made /\ copy_.on_copy
    /\ ev.op = "Step" /\ step_ret = TRUE
    /\ step_count_ = 1 /\ copy_.m.step_count_ = 0
    /\ \E p \in Window : ReadAt(p) # ReadOther(p)

\* C18: Run never returns ERROR: whenever it has returned, for a final state,
\* a missing rule or a reached step limit, on a tape read within or beyond
\* its data, its result is ACCEPTED, REJECTED or TIMEOUT; and a Step returns
\* true or false.
C18_HaltingIsData ==
    /\ result # "ERROR"
    /\ RunReturned => result \in {"ACCEPTED", "REJECTED", "TIMEOUT"}
    /\ step_ret \in BOOLEAN

\* Run has returned REJECTED for a missing rule after the head moved past the
\* input data, whose generator has gone over to blanks
C18_Witness ==
    /\ RunReturned /\ result = "REJECTED"
    /\ ~ev.had_rule /\ ~ev.at_limit
    /\ run_applied >= 1
    /\ Len(BuiltFrom) >= 1
    /\ ~strip_.gen_.using_sequence_

\* the bitwise complement of a binary word
Complement(w) == [i \in 1..Len(w) |-> IF w[i] = "0" THEN "1" ELSE "0"]
\* TuringMachine::GetTapeSegment in the current state
GetTapeSegment(start_pos, length) ==
    GetSegment(strip_, modifications_, blank_symbol_, start_pos, length).segment
\* the machine holds the three rules of the inverter and its final state
IsInverter ==
    /\ DOMAIN rules_map_ = {<<rule.from_state, rule.read_symbol>> : rule \in InverterRules}
    /\ \A rule \in InverterRules : rules_map_[<<rule.from_state, rule.read_symbol>>] = rule
    /\ final_states_ = {"q1"}

\* C19: when the first Run of the inverter on a word w of length n, made
\* with a step limit above n, returns, the result is ACCEPTED, the step
\* count is n+1, the head is at n and tape segment [0, n) is the bitwise
\* complement of w.
C19_InverterComplements ==
    (RunReturned /\ calls = 1 /\ IsInverter /\ max_steps_ > Len(BuiltFrom)) =>
        /\ result = "ACCEPTED"
        /\ step_count_ = Len(BuiltFrom) + 1
        /\ position_ = Len(BuiltFrom)
        /\ GetTapeSegment(0, Len(BuiltFrom)) = Complement(BuiltFrom)

\* the inverter has run on "101" under a limit of 4 steps: 4 steps, "010"
C19_Witness ==
    /\ RunReturned /\ calls = 1 /\ IsInverter
    /\ BuiltFrom = <<"1", "0", "1">>
    /\ max_steps_ = 4
    /\ step_count_ = 4
    /\ GetTapeSegment(0, 3) = <<"0", "1", "0">>

\* the last two calls on the LazySeq were Get(i) for the same i
TwoGets == Len(lazy_calls) = 2 /\ lazy_calls[1].i = lazy_calls[2].i

\* C20 as stated: of two successive Get(i) calls the second returns what the
\* first returned and calls the generator not once, whether or not the first
\* call could materialize index i.
C20_SecondGetCallsNothingAsStated ==
    TwoGets =>
        /\ lazy_calls[2].hit = lazy_calls[1].hit
        /\ lazy_calls[2].gets = 0

\* C20: of two successive Get(i) calls the second returns what the first
\* returned, appends nothing and never invokes a generator's callable; it
\* calls GetNext not once if index i is materialized or the sequence has
\* reached its maximum length, and once, to no effect, if the first call
\* stopped at a FunctionGenerator whose callable had failed.
C20_SecondGetIdempotent ==
    TwoGets =>
        /\ lazy_calls[2].hit = lazy_calls[1].hit
        /\ lazy_calls[2].invoked = 0
        /\ lazy_calls[2].gets =
              IF lazy_calls[1].hit = {} /\ MaterializedCount(lazy_) < lazy_.max_len_
              THEN 1 ELSE 0
        /\ lazy_calls[2].gets = 1 =>
              lazy_.gen_.kind = "function" /\ ~lazy_.gen_.has_next_

\* Get(i) was called twice for an index beyond the elements the callable of
\* a FunctionGenerator yields before it fails: absent both times
C20_Witness ==
    /\ TwoGets
    /\ lazy_calls[1].hit = {} /\ lazy_calls[2].hit = {}
    /\ lazy_calls[1].invoked >= 1
    /\ lazy_.gen_.kind = "function" /\ ~lazy_.gen_.has_next_
    /\ MaterializedCount(lazy_) >= 1

\* this step is a client's call of Get on the LazySeq, and the call it is
GetCalled == lazy_calls' # <<>> /\ <<lazy_, lazy_calls>>' # <<lazy_, lazy_calls>>
ThisGet == lazy_calls'[Len(lazy_calls')]
\* every element stored before this step is stored unchanged after it
StoredKept ==
    \A j \in 0..(MaterializedCount(lazy_) - 1) : MemGet(lazy_', j) = MemGet(lazy_, j)

\* C21: a Get(i) for a materialized index i, whatever Get calls came before,
\* returns the stored value, calls neither the generator nor a callable and
\* leaves MaterializedCount as it was; and no Get call changes a stored
\* value, so the value returned for i is the same at every later call.
C21_MaterializedIsStable ==
    [][GetCalled =>
        /\ StoredKept
        /\ ThisGet.i < MaterializedCount(lazy_) =>
              /\ ThisGet.hit = {lazy_.mem_[ThisGet.i + 1]}
              /\ ThisGet.gets = 0 /\ ThisGet.invoked = 0
              /\ MaterializedCount(lazy_') = MaterializedCount(lazy_)]_vars

\* after a Get(j) that called the generator, a Get(i) for a smaller index
\* i returned a stored value without calling the generator
C21_Witness ==
    /\ Len(lazy_calls) = 2
    /\ lazy_calls[1].gets >= 1
    /\ lazy_calls[2].i < lazy_calls[1].i
    /\ lazy_calls[2].hit # {} /\ lazy_calls[2].gets = 0
    /\ MaterializedCount(lazy_) > lazy_calls[2].i + 1

\* the values of the next n GetNext calls on a generator that does not fail
\* within them
RECURSIVE NextOutputs(_, _)
NextOutputs(gen, n) ==
    IF n = 0 THEN <<>>
    ELSE LET first == GenGetNext(gen)
         IN <<first.value>> \o NextOutputs(first.gen, n - 1)

\* C22: a Get(i) whose generator does not fail, on a sequence with c
\* materialized elements and maximum length M, leaves MaterializedCount at
\* max(c, min(i+1, M)), made one GetNext call per element it appended and
\* appended their values in the order of the calls after the elements
\* already stored; after any Get the count is at most M and not below c.
C22_SequentialMinimalGrowth ==
    [][GetCalled =>
        LET c == MaterializedCount(lazy_)
            after == MaterializedCount(lazy_')
        IN /\ after <= lazy_'.max_len_
           /\ after >= c
           /\ ~ThisGet.failed =>
                 /\ after = Max(c, Min(ThisGet.i + 1, lazy_.max_len_))
                 /\ ThisGet.gets = after - c
                 /\ lazy_'.mem_ = lazy_.mem_ \o NextOutputs(lazy_.gen_, after - c)]_vars

\* a Get(i) has appended two elements or more and stopped at the maximum
\* length, short of index i
C22_Witness ==
    /\ lazy_calls # <<>>
    /\ LET call == lazy_calls[Len(lazy_calls)]
       IN /\ call.gets >= 2 /\ ~call.failed
          /\ call.i >= lazy_.max_len_
          /\ MaterializedCount(lazy_) = lazy_.max_len_
          /\ lazy_.mem_[1] # lazy_.mem_[2]

\* the generator of the sequence is a callable that fails after its outputs,
\* and growing the store for Get(i) asks it for more than it has
Exhausts(i) ==
    /\ lazy_.gen_.kind = "function" /\ ~lazy_.gen_.endless
    /\ MaterializedCount(lazy_) <= i
    /\ Min(i + 1, lazy_.max_len_) > Len(lazy_.gen_.outs)

\* C23: a Get(i) during which the generator fails returns absent, appended
\* nothing for the GetNext that failed (the failing GetNext is its last one
\* and the store grew by the outputs before it only), and the generator
\* fails in it exactly when the callable runs out of outputs before index i
\* or the maximum length is reached; Get(i) for i at or beyond the maximum
\* length returns absent; every element stored before the call is still
\* stored, with its value, after it.
C23_FailureIsAbsence ==
    [][GetCalled =>
        LET c == MaterializedCount(lazy_)
            after == MaterializedCount(lazy_')
        IN /\ ThisGet.failed <=> Exhausts(ThisGet.i)
           /\ ThisGet.failed =>
                 /\ ThisGet.hit = {}
                 /\ after = c + ThisGet.gets - 1
                 /\ after <= ThisGet.i
                 /\ lazy_'.mem_ = lazy_.mem_ \o NextOutputs(lazy_.gen_, ThisGet.gets - 1)
           /\ after <= ThisGet.i => ThisGet.hit = {}
           /\ ThisGet.i >= lazy_.max_len_ => ThisGet.hit = {}
           /\ StoredKept
           /\ \A j \in 0..(c - 1) : MemGet(lazy_', j) # {}]_vars

\* a Get has appended an element and then met the failure of the generator,
\* after an earlier Get that returned a value
C23_Witness ==
    /\ Len(lazy_calls) = 2
    /\ lazy_calls[1].hit # {}
    /\ lazy_calls[2].failed /\ lazy_calls[2].gets = 1
    /\ lazy_calls[2].hit = {}
    /\ MaterializedCount(lazy_) >= 1
    /\ lazy_.max_len_ > lazy_calls[2].i

\* C24: once the callable of a function-driven generator has failed, no
\* later call of any kind invokes it again, the failure stays recorded, and
\* from then on HasNext is false, a TryGetNext call returns nothing and a
\* GetNext call fails.
C24_ExhaustedForGood ==
    [][gen_log.failed =>
        /\ ~GenHasNext(gen_)
        /\ gen_log'.failed
        /\ gen_log'.invoked = gen_log.invoked
        /\ ~GenHasNext(gen_')
        /\ gen_log'.last.op = "HasNext" => ~gen_log'.last.ok
        /\ gen_log'.calls > gen_log.calls =>
              ~gen_log'.last.ok /\ gen_log'.last.invoked = 0]_vars

\* the callable gave a value and failed, and a call of GetNext after the
\* failure has failed without invoking it
C24_Witness ==
    /\ gen_log.failed
    /\ gen_log.invoked >= 2
    /\ gen_log.calls >= gen_log.invoked + 1
    /\ gen_log.last.op = "GetNext" /\ ~gen_log.last.ok

\* the data and the default (blank) value a sequence or tape generator was
\* constructed with
BuiltOn(gen) ==
    IF gen.kind = "sequence"
    THEN [d |-> gen.data_, b |-> gen.default_value_]
    ELSE [d |-> gen.tape.data_, b |-> gen.tape.constant_value_]

\* C25: on a sequence generator or a tape generator built from data d and
\* default b, the k-th call of GetNext or TryGetNext (k counted from 0 over
\* both) returns d[k] when k < |d| and b when k >= |d|, and HasNext is true
\* in every state.
C25_SequenceThenDefault ==
    gen_.kind \in {"sequence", "tape"} =>
        LET k == gen_log.calls - 1
            built == BuiltOn(gen_)
        IN /\ GenHasNext(gen_)
           /\ gen_log.last.op = "HasNext" => gen_log.last.ok
           /\ gen_log.last.op \in {"GetNext", "TryGetNext"} =>
                 /\ gen_log.last.ok
                 /\ gen_log.last.value =
                       IF k < Len(built.d) THEN built.d[k + 1] ELSE built.b

\* a tape generator over two different symbols has returned both and then,
\* from TryGetNext, a blank that differs from the last of them
C25_Witness ==
    /\ gen_.kind = "tape"
    /\ Len(gen_.tape.data_) = 2
    /\ gen_.tape.data_[1] # gen_.tape.data_[2]
    /\ gen_log.calls = 3
    /\ gen_log.last.op = "TryGetNext"
    /\ gen_log.last.value = gen_.tape.constant_value_
    /\ gen_log.last.value # gen_.tape.data_[2]

\* the k-th output (k from 0) of a generator as it was constructed, or
\* nothing when its callable has failed by then; the fields read here are
\* the construction arguments, which no call changes
OutputAt(gen, k) ==
    CASE gen.kind = "function" ->
            IF k < Len(gen.outs) THEN {gen.outs[k + 1]}
            ELSE IF gen.endless THEN {"_"} ELSE {}
      [] gen.kind = "constant" -> {gen.constant_value_}
      [] gen.kind = "sequence" ->
            IF k < Len(gen.data_) THEN {gen.data_[k + 1]} ELSE {gen.default_value_}
      [] gen.kind = "tape" ->
            IF k < Len(gen.tape.data_) THEN {gen.tape.data_[k + 1]}
            ELSE {gen.tape.constant_value_}
\* what Get(i) returns on a sequence with this generator and maximum length
ValueAt(seq, i) == IF i < seq.max_len_ THEN OutputAt(seq.gen_, i) ELSE {}

\* C26: the result of every Get(i) is determined by the generator and the
\* maximum length the sequence was built with and by i alone: it is the i-th
\* output of the generator when i is below the maximum length and absent
\* otherwise, whichever indices were requested before it and in whatever
\* order; so two sequences built alike return equal values for every index
\* under any two access patterns.
C26_AccessPatternIndependent ==
    \A n \in DOMAIN lazy_calls : lazy_calls[n].hit = ValueAt(lazy_, lazy_calls[n].i)

\* the last index was requested first, on an empty store, and index 0 after
\* it, and the two values differ
C26_Witness ==
    /\ Len(lazy_calls) = 2
    /\ lazy_calls[1].i = MaxIndex /\ lazy_calls[1].gets = MaxIndex + 1
    /\ lazy_calls[2].i = 0
    /\ lazy_calls[1].hit # {} /\ lazy_calls[2].hit # {}
    /\ lazy_calls[1].hit # lazy_calls[2].hit

\* C27: a step that is SetSymbolAt(p, s) leaves the base sequence as it was
\* (its stored elements, so its MaterializedCount, and its generator with
\* its cursor), leaves every overlay entry for a position other than p as
\* it was and adds none but p's, and leaves the symbol read at every
\* position q # p as it was.
C27_WriteLeavesBase ==
    [][ev'.op = "SetSymbolAt" =>
        /\ strip_' = strip_
        /\ DOMAIN modifications_' = DOMAIN modifications_ \cup {ev'.pos}
        /\ modifications_'[ev'.pos] = ev'.sym
        /\ \A q \in DOMAIN modifications_ \ {ev'.pos} :
              modifications_'[q] = modifications_[q]
        /\ \A q \in FarPositions \ {ev'.pos} : ReadNext(q) = ReadAt(q)]_vars

\* a write has put, over a cell the base sequence has materialized, a symbol
\* other than the one stored there, while another cell is written too
C27_Witness ==
    /\ ev.op = "SetSymbolAt"
    /\ ev.pos >= 0 /\ ev.pos < MaterializedCount(strip_)
    /\ ev.sym # strip_.mem_[ev.pos + 1]
    /\ modifications_[ev.pos] = ev.sym
    /\ Cardinality(DOMAIN modifications_) >= 2

\* C28: GetSegment(start, length) returns exactly length symbols, the k-th of
\* them (k from 0) the symbol a read of position start + k returns, for
\* negative, zero and positive start; for length 0 it returns the empty
\* sequence.
C28_SegmentIsReads ==
    ev.op = "GetSegment" =>
        /\ Len(ev.data) = ev.len
        /\ \A k \in 0..(ev.len - 1) : ev.data[k + 1] = ReadAt(ev.pos + k)
        /\ ev.len = 0 => ev.data = <<>>

\* a segment from a negative start has run over the blank before the data,
\* a symbol of the data, a written cell and a cell beyond them
C28_Witness ==
    /\ ev.op = "GetSegment"
    /\ ev.pos < 0 /\ ev.len >= 3
    /\ Len(BuiltFrom) >= 1 /\ 0 \notin DOMAIN modifications_
    /\ ev.data[1 - ev.pos] = BuiltFrom[1]
    /\ ev.data[1 - ev.pos] # ev.data[1]
    /\ 1 \in DOMAIN modifications_
    /\ ev.data[2 - ev.pos] = modifications_[1]
    /\ modifications_[1] # BaseAt(1)

\* C29: after Reset(d) of the tape, whatever was read and written before,
\* the overlay is empty and the base is the unmaterialized sequence a tape
\* constructed with d has, so that position p reads d[p] for 0 <= p < |d|
\* and the blank symbol everywhere else.
C29_TapeResetIsFresh ==
    ev.op = "TapeReset" =>
        /\ modifications_ = <<>>
        /\ MaterializedCount(strip_) = 0
        /\ strip_ = LazySeq(TapeGenerator(ev.data, blank_symbol_), INF)
        /\ \A p \in FarPositions :
              ReadAt(p) = IF 0 <= p /\ p < Len(ev.data) THEN ev.data[p + 1]
                          ELSE blank_symbol_

\* a Reset with data that begins with a symbol other than the blank has
\* found two written cells and two materialized elements of the base
C29_Witness ==
    /\ ev.op = "TapeReset"
    /\ ev.pos >= 2 /\ ev.len >= 2
    /\ ev.data # <<>> /\ ev.data[1] # blank_symbol_

\* the rule of the most recent AddRule in the log whose key is (q, a), if any
LastAdded(log, q, a) ==
    LET with_key == {n \in DOMAIN log : log[n].from_state = q /\ log[n].read_symbol = a}
    IN IF with_key = {} THEN {}
       ELSE {log[CHOOSE n \in with_key : \A m \in with_key : m <= n]}
\* the distinct keys of the rules in the log
KeysAdded(log) == {<<log[n].from_state, log[n].read_symbol>> : n \in DOMAIN log}
\* the table answers as the log of AddRule calls says
TableFollows(table, log) ==
    /\ \A q \in States, a \in Symbols :
          /\ FindRule(table, q, a) = LastAdded(log, q, a)
          /\ HasRule(table, q, a) <=> FindRule(table, q, a) # {}
    /\ GetRulesCount(table) = Cardinality(KeysAdded(log))

\* C30: before and after every AddRule call, FindRule(q, a) returns the rule
\* of the most recent AddRule with key (q, a) and nothing if there was none,
\* HasRule(q, a) is true exactly when FindRule(q, a) returns a rule, and the
\* rule count is the number of distinct keys added; an AddRule of the very
\* rule the table already holds for its key leaves the table as it was.
C30_LastWriteWins ==
    [][/\ TableFollows(rules_map_, added_)
       /\ TableFollows(rules_map_', added_')
       /\ LET rule == added_'[Len(added_')]
          IN FindRule(rules_map_, rule.from_state, rule.read_symbol) = {rule}
                => rules_map_' = rules_map_]_vars

\* a key was added twice with different rules and another key between them
C30_Witness ==
    /\ Len(added_) = 3
    /\ added_[1].from_state = added_[3].from_state
    /\ added_[1].read_symbol = added_[3].read_symbol
    /\ added_[1] # added_[3]
    /\ added_[2].read_symbol # added_[1].read_symbol
    /\ FindRule(rules_map_, added_[1].from_state, added_[1].read_symbol) = {added_[3]}
    /\ GetRulesCount(rules_map_) = 2

\* this step is a client's call of Run, up to the loop
RunCalled == pc = "idle" /\ pc' = "run"

\* C31: a Run made in a final state changes neither the current state, the
\* head nor the tape on its way into the loop, and the pass of the loop made
\* in a final state returns ACCEPTED, applies no transition and changes
\* neither the current state, the head nor the tape (base and overlay, so no
\* cell); a Run after an ACCEPTED Run is such a Run.
C31_RunInFinalStateIsIdle ==
    [][/\ (RunCalled /\ IsInFinalState) =>
            /\ IsInFinalState'
            /\ UNCHANGED <<current_state_, position_, strip_, modifications_,
                           blank_symbol_, applied>>
       /\ (pc = "run" /\ IsInFinalState) =>
            /\ pc' = "idle" /\ result' = "ACCEPTED"
            /\ ~ev'.stepped
            /\ UNCHANGED <<current_state_, position_, strip_, modifications_,
                           blank_symbol_, applied, run_applied>>]_vars

\* a Run that applied transitions returned in a final state, and the Run
\* made after it has returned ACCEPTED having applied none, with a rule at
\* hand for the configuration it found
C31_Witness ==
    /\ RunReturned /\ result = "ACCEPTED"
    /\ calls = 2
    /\ applied >= 1 /\ run_applied = 0
    /\ step_count_ = 0
    /\ ev.had_rule

\* C32: the step counter equals the number of transitions applied since
\* construction or the last Reset, by Step calls and inside Run alike, and a
\* step of Run changes the counter only by the increment of a transition it
\* applies.
C32_StepCountIsApplied ==
    [][/\ step_count_' = applied'
       /\ (pc = "run" \/ RunCalled) =>
             step_count_' = step_count_ + (applied' - applied)]_vars

\* C33: in every state a generator of any of the four variants reaches
\* under GetNext and TryGetNext calls, TryGetNext returns a value exactly
\* when GetNext returns rather than fails, the two return the same value,
\* leave the same generator state and invoke the wrapped callable alike; so
\* each GetNext the lazy sequence makes appends the value, or appends
\* nothing, as a TryGetNext in its place would.
C33_GetNextIsTryGetNext ==
    LET next == GenGetNext(gen_)
        try == GenTryGetNext(gen_)
    IN /\ try.ok <=> next.ok
       /\ next.ok => try.value = next.value
       /\ try.gen = next.gen
       /\ try.invoked = next.invoked

\* a callable that has given all its values is about to fail: GetNext would
\* fail and TryGetNext return nothing, both leaving the generator exhausted
C33_Witness ==
    /\ gen_.kind = "function" /\ gen_.has_next_ /\ ~gen_.endless
    /\ gen_.invoked = Len(gen_.outs) /\ Len(gen_.outs) >= 2
    /\ gen_log.last.op = "TryGetNext" /\ gen_log.last.ok
    /\ ~GenGetNext(gen_).ok /\ ~GenGetNext(gen_).gen.has_next_
    /\ ~GenTryGetNext(gen_).ok

\* C34: in every state a machine reaches through Step, Run and Reset calls,
\* none of them a SetMaxSteps call of the client, the step counter is at most
\* the step limit.
C34_CountWithinLimit == step_count_ <= max_steps_

\* a Run has set a limit and applied transitions up to it, and a Step made
\* after it with a rule at hand found the counter at the limit and left it
\* there
C34_Witness ==
    /\ pc = "idle" /\ ev.op = "Step"
    /\ ev.at_limit /\ ev.had_rule
    /\ step_count_ = max_steps_ /\ max_steps_ = MaxLimit
    /\ applied = max_steps_

\* C35: a step that is GetSymbolAt(p) leaves the overlay as it was, leaves
\* the base's MaterializedCount as it was when p is in the overlay or p < 0,
\* and otherwise leaves it at the larger of the previous count and p + 1.
C35_ReadMaterializesOnDemand ==
    [][ev'.op = "GetSymbolAt" =>
        LET p == ev'.pos
            count == MaterializedCount(strip_)
        IN /\ modifications_' = modifications_
           /\ MaterializedCount(strip_') =
                 IF p \in DOMAIN modifications_ \/ p < 0 THEN count
                 ELSE Max(count, p + 1)]_vars

\* a read of a written cell beyond the materialized part of the base has
\* left the base at the element an earlier read materialized
C35_Witness ==
    /\ ev.op = "GetSymbolAt"
    /\ ev.pos \in DOMAIN modifications_
    /\ MaterializedCount(strip_) >= 1
    /\ ev.pos >= MaterializedCount(strip_)

\* C36: the overlay holds an entry for exactly the positions written, by
\* the client or by a step, since the last Reset or ClearModifications of the
\* tape, so GetModificationsCount is their number; after a write or an
\* applied step the written position has an entry holding the written
\* symbol, whatever the cell showed before; and no read, write or step
\* lowers the count.
C36_OverlayCountsWrittenCells ==
    [][/\ DOMAIN modifications_' = written_'
       /\ GetModificationsCount(modifications_') = Cardinality(written_')
       /\ ev'.op = "SetSymbolAt" =>
             /\ ev'.pos \in DOMAIN modifications_'
             /\ modifications_'[ev'.pos] = ev'.sym
       /\ (ev'.op = "Step" /\ step_ret') => ev'.pos \in DOMAIN modifications_'
       /\ ev'.op \in {"GetSymbolAt", "SetSymbolAt", "Step"} =>
             GetModificationsCount(modifications_') >=
                GetModificationsCount(modifications_)]_vars

\* a write has stored, in a cell never written since the tape was last
\* cleared, the blank that the cell showed already, beside the entry of a
\* step
C36_Witness ==
    /\ ev.op = "SetSymbolAt"
    /\ ev.sym = blank_symbol_ /\ BaseAt(ev.pos) = ev.sym
    /\ modifications_[ev.pos] = ev.sym
    /\ applied >= 1
    /\ GetModificationsCount(modifications_) = 2

\* the blank the tape was built with, at construction or at its last Reset
BuiltBlank == strip_.gen_.constant_value_
\* the positions of FarPositions that hold no written symbol
Unwritten == FarPositions \ DOMAIN modifications_

\* C37: a step that is SetBlankSymbol(b2) makes every unwritten negative
\* position read b2 and leaves every unwritten position at or beyond the end
\* of the initial data reading what it read, the blank the tape was built
\* with, materialized or not; and after any step the unwritten negative
\* positions read the current blank and the unwritten positions beyond the
\* data the blank the tape was built with.
C37_BlankChangeSplitsTape ==
    [][/\ ev'.op = "SetBlankSymbol" =>
            \A p \in Unwritten :
                /\ p < 0 => ReadNext(p) = ev'.sym
                /\ p >= Len(BuiltFrom) =>
                      ReadNext(p) = ReadAt(p) /\ ReadNext(p) = BuiltBlank
       /\ \A p \in FarPositions \ DOMAIN modifications_' :
            /\ p < 0 => ReadNext(p) = blank_symbol_'
            /\ p >= Len(BuiltFrom') => ReadNext(p) = BuiltBlank']_vars

\* after the blank was changed, a read of an unwritten cell beyond the data
\* has returned the blank the tape was built with, which is not the current
\* one, while position -1 reads the current one
C37_Witness ==
    /\ ev.op = "GetSymbolAt"
    /\ ev.pos >= Len(BuiltFrom) + 1
    /\ ev.pos \notin DOMAIN modifications_
    /\ ev.sym = BuiltBlank /\ ev.sym # blank_symbol_
    /\ ReadAt(0 - 1) = blank_symbol_

\* this step is a SetMaxSteps call
SetMaxStepsCalled == pc = "idle" /\ ev'.op = "SetMaxSteps" /\ calls' = calls + 1

\* C38: Run(n) with n > 0 makes n the step limit and Run(0) keeps the limit
\* in force; no step other than a Run(n) with n > 0 or a SetMaxSteps changes
\* the limit (so neither Reset, Step nor a pass of Run's loop does); a Step
\* applies a transition only while the counter is below the limit, and no
\* Run has applied more transitions than the limit after any pass of its loop.
C38_RunLimitPersists ==
    [][/\ RunCalled =>
            max_steps_' = IF ev'.len > 0 THEN ev'.len ELSE max_steps_
       /\ (~(RunCalled /\ ev'.len > 0) /\ ~SetMaxStepsCalled) =>
            max_steps_' = max_steps_
       /\ (StepInvoked /\ step_ret') =>
            /\ step_count_ < max_steps_
            /\ step_count_' <= max_steps_'
       /\ (StepInvoked /\ step_count_ >= max_steps_) =>
            /\ ~step_ret'
            /\ applied' = applied
       /\ pc = "run" => run_applied' <= max_steps_']_vars

\* a Run(0) has begun under the limit 1 that an earlier Run(1) left, the
\* earlier Run having applied one transition
C38_Witness ==
    /\ pc = "run" /\ ev.op = "Run" /\ ev.len = 0
    /\ calls = 2
    /\ max_steps_ = 1
    /\ applied = 1
    /\ step_count_ = 0

\* C39: the head is within the range the head manager reports, and the ends
\* of that range are the smallest and the largest position the head has held
\* since construction or the last Reset (a SetInitialPosition is a Reset), so
\* the tape usage is at least 1.
C39_HeadRange ==
    /\ min_position_ <= position_ /\ position_ <= max_position_
    /\ position_ \in held_
    /\ min_position_ \in held_ /\ max_position_ \in held_
    /\ \A p \in held_ : min_position_ <= p /\ p <= max_position_
    /\ GetTapeUsage(min_position_, max_position_) >= 1

\* a SetPosition has put the head strictly inside the range, which earlier
\* jumps widened on both sides past positions the head never held
C39_Witness ==
    /\ ev.op = "SetPosition"
    /\ min_position_ < position_ /\ position_ < max_position_
    /\ min_position_ < initial_position_ /\ initial_position_ < max_position_
    /\ Cardinality(held_) < GetTapeUsage(min_position_, max_position_)

=========================================================================
